---------------------------- MODULE Spec2Model ----------------------------
(***************************************************************************)
(* MeshXT packet codec: smaz-style compression, Reed-Solomon FEC over      *)
(* GF(2^8) and the packet framer (src/src/compress.js, src/src/index.js,   *)
(* src/src/packet.js).  Byte buffers and polynomials are sequences of      *)
(* integers 0..255; the code's 0-based index i is position i + 1 here.     *)
(* JavaScript strings are sequences of UTF-16 code units.                  *)
(***************************************************************************)
EXTENDS Integers, Sequences, FiniteSets, TLC

VARIABLES
  generatorCache,  \* fec.js generatorCache: parity count -> generator polynomial
  call,            \* the API call made last
  data,            \* fec harness: the message given to fec.encode
  level,           \* fec harness: the FEC level in use
  encoded,         \* fec harness: outcome of fec.encode
  block,           \* fec harness: the block handed to fec.decode
  errs,            \* fec harness: offsets whose byte value was changed in transit
  decoded,         \* fec harness: outcome of fec.decode
  corrected,       \* fec harness: the block rsDecodeMsg stripped the parity from
  text,            \* compression harness: the string given to compress
  compressed,      \* compression harness: outcome of compress
  decompressed,    \* compression harness: outcome of decompress
  pktMsg,          \* packet harness: the message given to createPacket
  pktOpts,         \* packet harness: the options given to createPacket
  created,         \* packet harness: outcome of createPacket
  pkt,             \* packet harness: the bytes given to parsePacket
  pktErrs,         \* packet harness: packet offsets whose byte was changed in transit
  parsed,          \* packet harness: outcome of parsePacket
  gfCase,          \* field harness: the operands and results of the GF(2^8) calls
  session,         \* session harness: the last call, whether it returned, the cache before it
  firmware,        \* firmware harness: the arguments and results of the C FEC calls
  codebookCase,    \* codebook harness: the template name, params and results of the codebook calls
  parseLoop        \* stepwise parsePacket: the payload and the state of decompress's while loop

fecVars == <<data, level, encoded, block, errs, decoded, corrected>>
cmpVars == <<text, compressed, decompressed>>
pktVars == <<pktMsg, pktOpts, created, pkt, pktErrs, parsed>>
vars ==
  <<generatorCache, call, fecVars, cmpVars, pktVars, gfCase, session, firmware, codebookCase,
    parseLoop>>

(***************************************************************************)
(* Bounds of the model                                                     *)
(***************************************************************************)
MaxDataLen == 2      \* longest message given to fec.encode in the short cases

(***************************************************************************)
(* Outcomes of a call: a returned value or a thrown Error                  *)
(***************************************************************************)
None == [ok |-> FALSE, err |-> "not called"]
Ok(v) == [ok |-> TRUE, val |-> v]
Err(e) == [ok |-> FALSE, err |-> e]
Returned(r) == r.ok

(***************************************************************************)
(* A for-loop "for (i = lo; i <= hi; i++) s = Body(i, s)".  The range is   *)
(* halved so that evaluation nests logarithmically; the iterations run in  *)
(* the loop's order (the first half's result is an element of a set, so a *)
(* value, before the second half starts from it).                          *)
(***************************************************************************)
RECURSIVE Loop(_, _, _, _)
Loop(Body(_, _), lo, hi, s) ==
  IF lo > hi THEN s
  ELSE IF lo = hi THEN Body(lo, s)
  ELSE CHOOSE end \in {Loop(Body, ((lo + hi) \div 2) + 1, hi, left) :
                         left \in {Loop(Body, lo, (lo + hi) \div 2, s)}} : TRUE

\* "const v = ...; Use(v)": a value computed once and used by name
With(v, Use(_)) == Use(v)

At(s, i) == s[i + 1]                      \* s[i] of the code
Put(s, i, v) == [s EXCEPT ![i + 1] = v]   \* s[i] = v of the code
Zeros(n) == Loop(LAMBDA i, s : Append(s, 0), 1, n, <<>>)  \* new Uint8Array(n)
Slice(s, from, to) == SubSeq(s, from + 1, to)             \* s.slice(from, to)

(***************************************************************************)
(* Bitwise operators on bytes                                              *)
(***************************************************************************)
RECURSIVE BitXor(_, _)
BitXor(a, b) ==
  IF a = 0 THEN b
  ELSE IF b = 0 THEN a
  ELSE ((a + b) % 2) + 2 * BitXor(a \div 2, b \div 2)

\* a ^ b on bytes, from a table: the 16 x 16 table of BitXor on nibbles, and
\* the 256 x 256 table made of it.
NibbleXor ==
  Loop(LAMBDA a, rows :
         Append(rows, Loop(LAMBDA b, row : Append(row, BitXor(a, b)), 0, 15, <<>>)),
       0, 15, <<>>)

XorTable ==
  Loop(LAMBDA a, rows :
         Append(rows,
                Loop(LAMBDA b, row :
                       Append(row, 16 * NibbleXor[(a \div 16) + 1][(b \div 16) + 1]
                                     + NibbleXor[(a % 16) + 1][(b % 16) + 1]),
                     0, 255, <<>>)),
       0, 255, <<>>)

XOR(a, b) == XorTable[a + 1][b + 1]

(***************************************************************************)
(* GF(2^8) arithmetic, primitive polynomial 0x11D                          *)
(***************************************************************************)
GF_SIZE == 256
PRIM_POLY == 285

\* initTables: the exp and log tables after the two loops.
initTables ==
  LET step(i, st) ==
        [gfExp |-> Put(st.gfExp, i, st.x),
         gfLog |-> Put(st.gfLog, st.x, i),
         x |-> IF ((2 * st.x) \div 256) % 2 = 1 THEN BitXor(2 * st.x, PRIM_POLY) ELSE 2 * st.x]
      wrap(i, e) == Put(e, i, At(e, i - 255))
  IN With(Loop(step, 0, 254, [gfExp |-> Zeros(512), gfLog |-> Zeros(256), x |-> 1]),
          LAMBDA first : [gfExp |-> Loop(wrap, 255, 511, first.gfExp), gfLog |-> first.gfLog])

gfExp == initTables.gfExp
gfLog == initTables.gfLog

gfMul(a, b) ==
  IF a = 0 \/ b = 0 THEN 0
  ELSE gfExp[gfLog[a + 1] + gfLog[b + 1] + 1]

\* gfDiv multiplying instead of dividing
gfDivAsMul(a, b) == gfMul(a, b)

\* gfDiv is only called with b # 0 by rsCorrectErrors (it throws on b = 0).
gfDiv(a, b) ==
  IF a = 0 THEN 0
  ELSE At(gfExp, (At(gfLog, a) + 255 - At(gfLog, b)) % 255)

gfPow(x, power) == At(gfExp, (At(gfLog, x) * power) % 255)

gfInverse(x) == At(gfExp, 255 - At(gfLog, x))

(***************************************************************************)
(* Polynomials over GF(2^8), highest degree first                          *)
(***************************************************************************)
polyMul(p, q) ==
  LET inner(i, r) ==
        Loop(LAMBDA j, rr : Put(rr, i + j, XOR(At(rr, i + j), gfMul(At(p, i), At(q, j)))),
             0, Len(q) - 1, r)
  IN Loop(inner, 0, Len(p) - 1, Zeros(Len(p) + Len(q) - 1))

polyEval(poly, x) ==
  Loop(LAMBDA i, result : XOR(gfMul(result, x), poly[i + 1]), 1, Len(poly) - 1, poly[1])

polyScale(poly, x) ==
  Loop(LAMBDA i, r : Append(r, gfMul(At(poly, i), x)), 0, Len(poly) - 1, <<>>)

(***************************************************************************)
(* Generator polynomial and its cache                                      *)
(***************************************************************************)
\* buildGenerator stopping one root early
buildGeneratorOneRootShort(nsym) ==
  Loop(LAMBDA i, g : polyMul(g, <<1, At(gfExp, i)>>), 0, nsym - 2, <<1>>)

buildGenerator(nsym) ==
  Loop(LAMBDA i, g : polyMul(g, <<1, At(gfExp, i)>>), 0, nsym - 1, <<1>>)

\* The three generators the levels use, built once for the model's evaluation.
Generators == [n \in {16, 32, 64} |-> buildGenerator(n)] @@ <<>>

\* Names every plain object inherits from Object.prototype.  For such a name
\* "name in obj" is true and obj[name] is a function: a truthy value, NaN as
\* a number, 0 under "& 0xF".
ObjectPrototypeNames == {"toString", "constructor"}

\* key in obj
In(key, obj) == key \in DOMAIN obj \/ key \in ObjectPrototypeNames

\* String(obj[name]) for an inherited name: the property key the function
\* becomes in generatorCache[nsym]
MemberString(name) ==
  IF name = "toString" THEN "function toString() { [native code] }"
  ELSE "function Object() { [native code] }"

\* String(nsym): the property key of a parity count
CacheKey(nsym) == IF nsym = 16 THEN "16" ELSE IF nsym = 32 THEN "32" ELSE "64"

CacheKeys ==
  {CacheKey(n) : n \in {16, 32, 64}} \cup {MemberString(m) : m \in ObjectPrototypeNames}

Absent == <<>>   \* a cache slot never written (generatorCache[nsym] undefined)

\* getGenerator: the polynomial returned, and the cache after the call.
CacheAfter(cache, nsym) ==
  IF cache[CacheKey(nsym)] = Absent
    THEN [cache EXCEPT ![CacheKey(nsym)] = Generators[nsym]]
    ELSE cache

getGenerator(cache, nsym) == CacheAfter(cache, nsym)[CacheKey(nsym)]

\* The cache after getGenerator(nsym) with nsym an inherited function:
\* buildGenerator's loop test "0 < nsym" is false and the entry is [1].
CacheAfterMember(cache, name) ==
  IF cache[MemberString(name)] = Absent
    THEN [cache EXCEPT ![MemberString(name)] = <<1>>]
    ELSE cache

LEVELS == [low |-> 16, medium |-> 32, high |-> 64]
LevelNames == DOMAIN LEVELS

getParityCount(lv) == LEVELS[lv]

(***************************************************************************)
(* Encoding                                                                *)
(***************************************************************************)
\* rsEncodeMsg without the division: the parity left at its initial zeros
rsEncodeMsgZeroParity(cache, msgIn, nsym) == Zeros(nsym)

\* rsEncodeMsg returning no parity at all
rsEncodeMsgNoParity(cache, msgIn, nsym) == <<>>

rsEncodeMsg(cache, msgIn, nsym) ==
  LET divide(gen) ==
        Loop(LAMBDA i, feedback :
               With(At(feedback, i), LAMBDA coef :
                 IF coef # 0
                   THEN Loop(LAMBDA j, fb :
                               Put(fb, i + j, XOR(At(fb, i + j), gfMul(At(gen, j), coef))),
                             1, Len(gen) - 1, feedback)
                   ELSE feedback),
             0, Len(msgIn) - 1, msgIn \o Zeros(nsym))
  IN Slice(divide(getGenerator(cache, nsym)), Len(msgIn), Len(msgIn) + nsym)

(***************************************************************************)
(* Syndromes, error locator, error correction                              *)
(***************************************************************************)
\* rsCalcSyndromes leaving the syndromes at their initial zeros
rsCalcSyndromesUnset(msg, nsym) == Zeros(nsym)

rsCalcSyndromes(msg, nsym) ==
  Loop(LAMBDA i, synd : Append(synd, polyEval(msg, At(gfExp, i))), 0, nsym - 1, <<>>)

\* Berlekamp-Massey.  synd[i - j] with i - j < 0 reads undefined in the code,
\* and "delta ^= gfMul(x, undefined)" leaves delta as it was.
BerlekampMassey(synd, nsym) ==
  LET discrepancy(i, errLoc) ==
        Loop(LAMBDA j, d :
               IF i - j < 0 THEN d
               ELSE XOR(d, gfMul(At(errLoc, Len(errLoc) - 1 - j), At(synd, i - j))),
             1, Len(errLoc) - 1, At(synd, i))
      \* errLoc and scaledOld added, aligned at their last coefficients
      update(errLoc, scaledOld) ==
        LET size == IF Len(errLoc) > Len(scaledOld) THEN Len(errLoc) ELSE Len(scaledOld)
        IN Loop(LAMBDA j, u :
                  Put(u, size - Len(scaledOld) + j,
                      XOR(At(u, size - Len(scaledOld) + j), At(scaledOld, j))),
                0, Len(scaledOld) - 1, Zeros(size - Len(errLoc)) \o errLoc)
      swapped(errLoc, oldLoc, delta) ==
        With(polyScale(errLoc, gfInverse(delta)), LAMBDA newOld :
          [errLoc |-> update(polyScale(oldLoc, delta), polyScale(newOld, delta)),
           oldLoc |-> newOld])
      step(errLoc, oldLoc, delta) ==
        IF delta = 0 THEN [errLoc |-> errLoc, oldLoc |-> oldLoc]
        ELSE IF Len(oldLoc) > Len(errLoc) THEN swapped(errLoc, oldLoc, delta)
        ELSE [errLoc |-> update(errLoc, polyScale(oldLoc, delta)), oldLoc |-> oldLoc]
  IN Loop(LAMBDA i, st : step(st.errLoc, Append(st.oldLoc, 0), discrepancy(i, st.errLoc)),
          0, nsym - 1, [errLoc |-> <<1>>, oldLoc |-> <<1>>]).errLoc

rsFindErrorLocator(synd, nsym) ==
  With(BerlekampMassey(synd, nsym), LAMBDA errLoc :
    IF (Len(errLoc) - 1) * 2 > nsym THEN Err("Too many errors to correct") ELSE Ok(errLoc))

\* Chien search taking root index i for offset msgLen - i
rsFindErrorsShifted(errLoc, msgLen) ==
  With(Loop(LAMBDA i, ps :
              IF polyEval(errLoc, At(gfExp, 255 - i)) = 0
                THEN Append(ps, msgLen - i) ELSE ps,
            0, msgLen - 1, <<>>),
       LAMBDA errPos :
         IF Len(errPos) # Len(errLoc) - 1
           THEN Err("Could not locate all errors") ELSE Ok(errPos))

\* Chien search
rsFindErrors(errLoc, msgLen) ==
  With(Loop(LAMBDA i, ps :
              IF polyEval(errLoc, At(gfExp, 255 - i)) = 0
                THEN Append(ps, msgLen - 1 - i) ELSE ps,
            0, msgLen - 1, <<>>),
       LAMBDA errPos :
         IF Len(errPos) # Len(errLoc) - 1
           THEN Err("Could not locate all errors") ELSE Ok(errPos))

\* Formal derivative as rsCorrectErrors computes it: the coefficients at the
\* even indices of errLoc, written to half the index.
FormalDerivative(errLoc) ==
  LET size == (Len(errLoc) + 1) \div 2
      top == 2 * (Len(errLoc) \div 2)
  IN Loop(LAMBDA k, prime :
            LET i == top - 2 * k
            IN IF i < Len(errLoc) THEN Put(prime, i \div 2, At(errLoc, i)) ELSE prime,
          0, top \div 2, Zeros(size))

\* Forney
rsCorrectErrors(msg, synd, errPos) ==
  LET nsym == Len(synd)
      locator ==
        Loop(LAMBDA k, el : polyMul(el, <<At(gfExp, Len(msg) - 1 - At(errPos, k)), 1>>),
             0, Len(errPos) - 1, <<1>>)
      syndPoly ==
        Loop(LAMBDA i, sp : Put(sp, nsym - i, At(synd, i)), 0, nsym - 1, Zeros(nsym + 1))
      lowTerms(product) == Slice(product, Len(product) - nsym, Len(product))
      fix(fixed, pos, errLocEval, errEvalVal) ==
        IF errLocEval = 0
          THEN Err("Error locator derivative is zero")
          ELSE Ok(Put(fixed, pos, XOR(At(fixed, pos), gfDiv(errEvalVal, errLocEval))))
      forney(errEval, errLocPrime) ==
        Loop(LAMBDA k, st :
               IF ~st.ok THEN st
               ELSE With(gfInverse(At(gfExp, Len(msg) - 1 - At(errPos, k))), LAMBDA xiInv :
                      fix(st.val, At(errPos, k),
                          polyEval(errLocPrime, xiInv), polyEval(errEval, xiInv))),
             0, Len(errPos) - 1, Ok(msg))
  IN With(locator, LAMBDA errLoc :
       forney(lowTerms(polyMul(syndPoly, errLoc)), FormalDerivative(errLoc)))

AllZero(synd) == \A i \in 1..Len(synd) : synd[i] = 0

(***************************************************************************)
(* Full decode with error correction.  The outcome carries, beside the     *)
(* returned message, the block the parity was stripped from.               *)
(***************************************************************************)
\* rsDecodeMsg without the check of the corrected block
VerificationSkipped(blk, nsym) == TRUE

VerifyCorrection(blk, nsym) == AllZero(rsCalcSyndromes(blk, nsym))

\* rsDecodeMsg stripping the parity of the block as received
rsDecodeMsgAsReceived(msgWithParity, nsym) ==
  [ok |-> TRUE, val |-> Slice(msgWithParity, 0, Len(msgWithParity) - nsym),
   from |-> msgWithParity]

rsDecodeMsg(msgWithParity, nsym) ==
  LET strip(b) == [ok |-> TRUE, val |-> Slice(b, 0, Len(b) - nsym), from |-> b]
  IN With(rsCalcSyndromes(msgWithParity, nsym), LAMBDA synd :
       IF AllZero(synd) THEN strip(msgWithParity)
       ELSE With(rsFindErrorLocator(synd, nsym), LAMBDA errLoc :
         IF ~errLoc.ok THEN errLoc
         ELSE With(rsFindErrors(errLoc.val, Len(msgWithParity)), LAMBDA errPos :
           IF ~errPos.ok THEN errPos
           ELSE With(rsCorrectErrors(msgWithParity, synd, errPos.val), LAMBDA fixed :
             IF ~fixed.ok THEN fixed
             ELSE IF ~VerifyCorrection(fixed.val, nsym)
               THEN Err("Correction failed: residual syndromes non-zero")
             ELSE strip(fixed.val)))))

(***************************************************************************)
(* Public API of the FEC module                                            *)
(***************************************************************************)
\* fec.encode without its length check
\* fec.encode at a level name inherited from Object.prototype: nsym is a
\* function, "msg.length + nsym > 255" compares NaN and is false, the
\* feedback buffer "new Uint8Array(msg.length + nsym)" has length 0, so
\* feedback.set(msg) throws for a message that is not empty and the parity of
\* the empty message is empty.
fecEncodeInherited(bytes) ==
  IF Len(bytes) > 0 THEN Err("offset is out of bounds") ELSE Ok(<<>>)

fecEncodeUnchecked(cache, bytes, lv) ==
  IF lv \in ObjectPrototypeNames THEN fecEncodeInherited(bytes)
  ELSE IF lv \notin DOMAIN LEVELS THEN Err("Unknown FEC level: use low, medium or high")
  ELSE Ok(bytes \o rsEncodeMsg(cache, bytes, getParityCount(lv)))

\* fec.encode refusing a codeword of 255 symbols as well
fecEncodeBelow255(cache, bytes, lv) ==
  IF lv \in ObjectPrototypeNames THEN fecEncodeInherited(bytes)
  ELSE IF lv \notin DOMAIN LEVELS THEN Err("Unknown FEC level: use low, medium or high")
  ELSE IF Len(bytes) + getParityCount(lv) >= 255 THEN Err("Data too long")
  ELSE Ok(bytes \o rsEncodeMsg(cache, bytes, getParityCount(lv)))

fecEncode(cache, bytes, lv) ==
  IF lv \in ObjectPrototypeNames THEN fecEncodeInherited(bytes)
  ELSE IF lv \notin DOMAIN LEVELS THEN Err("Unknown FEC level: use low, medium or high")
  ELSE LET nsym == getParityCount(lv)
       IN IF Len(bytes) + nsym > 255
            THEN Err("Data too long")
            ELSE Ok(bytes \o rsEncodeMsg(cache, bytes, nsym))

\* generatorCache after fec.encode: getGenerator runs only past the level
\* lookup and the length check.
fecEncodeCache(cache, bytes, lv) ==
  IF lv \in ObjectPrototypeNames THEN CacheAfterMember(cache, lv)
  ELSE IF lv \notin DOMAIN LEVELS THEN cache
  ELSE IF Len(bytes) + getParityCount(lv) > 255 THEN cache
  ELSE CacheAfter(cache, getParityCount(lv))

fecDecode(bytes, lv) ==
  LET nsym == getParityCount(lv)
  IN IF Len(bytes) < nsym THEN Err("Data too short") ELSE rsDecodeMsg(bytes, nsym)

parityBytes(lv) == getParityCount(lv)

maxCorrectableErrors(lv) == getParityCount(lv) \div 2

(***************************************************************************)
(* UTF-8: Buffer.from(str, 'utf8') and buf.toString('utf8').  A string is  *)
(* its sequence of UTF-16 code units.                                      *)
(***************************************************************************)
REPLACEMENT == 65533   \* U+FFFD

IsHighSurrogate(u) == u >= 55296 /\ u <= 56319
IsLowSurrogate(u) == u >= 56320 /\ u <= 57343

\* The UTF-8 bytes of code point cp.
Utf8OfCodePoint(cp) ==
  IF cp < 128 THEN <<cp>>
  ELSE IF cp < 2048 THEN <<192 + (cp \div 64), 128 + (cp % 64)>>
  ELSE IF cp < 65536
    THEN <<224 + (cp \div 4096), 128 + ((cp \div 64) % 64), 128 + (cp % 64)>>
  ELSE <<240 + (cp \div 262144), 128 + ((cp \div 4096) % 64),
         128 + ((cp \div 64) % 64), 128 + (cp % 64)>>

\* Buffer.from(str, 'utf8'): a surrogate pair is one code point, a lone
\* surrogate becomes U+FFFD.
Utf8Encode(str) ==
  LET step(i, st) ==
        LET u == At(str, i)
            paired == /\ IsHighSurrogate(u)
                      /\ i + 1 < Len(str)
                      /\ IsLowSurrogate(At(str, i + 1))
        IN IF st.skip THEN [out |-> st.out, skip |-> FALSE]
           ELSE IF paired
             THEN [out |-> st.out \o Utf8OfCodePoint(65536 + (u - 55296) * 1024
                                                      + (At(str, i + 1) - 56320)),
                   skip |-> TRUE]
           ELSE IF IsHighSurrogate(u) \/ IsLowSurrogate(u)
             THEN [out |-> st.out \o Utf8OfCodePoint(REPLACEMENT), skip |-> FALSE]
           ELSE [out |-> st.out \o Utf8OfCodePoint(u), skip |-> FALSE]
  IN Loop(step, 0, Len(str) - 1, [out |-> <<>>, skip |-> FALSE]).out

\* The UTF-16 code units of code point cp.
Utf16OfCodePoint(cp) ==
  IF cp < 65536 THEN <<cp>>
  ELSE <<55296 + ((cp - 65536) \div 1024), 56320 + ((cp - 65536) % 1024)>>

\* buf.toString('utf8'): every ill-formed maximal subpart becomes U+FFFD.
Utf8Decode(bytes) ==
  LET fresh(out) == [out |-> out, needed |-> 0, seen |-> 0, cp |-> 0, lower |-> 128, upper |-> 191]
      lead(b, out) ==
        IF b <= 127 THEN fresh(Append(out, b))
        ELSE IF b >= 194 /\ b <= 223
          THEN [fresh(out) EXCEPT !.needed = 1, !.cp = b % 32]
        ELSE IF b >= 224 /\ b <= 239
          THEN [fresh(out) EXCEPT !.needed = 2, !.cp = b % 16,
                                  !.lower = IF b = 224 THEN 160 ELSE 128,
                                  !.upper = IF b = 237 THEN 159 ELSE 191]
        ELSE IF b >= 240 /\ b <= 244
          THEN [fresh(out) EXCEPT !.needed = 3, !.cp = b % 8,
                                  !.lower = IF b = 240 THEN 144 ELSE 128,
                                  !.upper = IF b = 244 THEN 143 ELSE 191]
        ELSE fresh(Append(out, REPLACEMENT))
      step(i, st) ==
        LET b == At(bytes, i)
            cp == st.cp * 64 + (b % 64)
        IN IF st.needed = 0 THEN lead(b, st.out)
           ELSE IF b < st.lower \/ b > st.upper THEN lead(b, Append(st.out, REPLACEMENT))
           ELSE IF st.seen + 1 = st.needed THEN fresh(st.out \o Utf16OfCodePoint(cp))
           ELSE [st EXCEPT !.cp = cp, !.seen = st.seen + 1, !.lower = 128, !.upper = 191]
  IN With(Loop(step, 0, Len(bytes) - 1, fresh(<<>>)), LAMBDA end :
       IF end.needed # 0 THEN Append(end.out, REPLACEMENT) ELSE end.out)

(***************************************************************************)
(* Smaz-style compression: the 254-entry codebook (each entry as its code  *)
(* units) and the trie built from it                                       *)
(***************************************************************************)
CODEBOOK ==
  << <<32>>, <<101>>, <<116>>, <<97>>,  \* 0x00..
     <<111>>, <<105>>, <<110>>, <<115>>,  \* 0x04..
     <<114>>, <<104>>, <<108>>, <<100>>,  \* 0x08..
     <<116, 104, 101>>, <<32, 116, 104, 101>>, <<116, 104>>, <<104, 101>>,  \* 0x0C..
     <<105, 110>>, <<101, 114>>, <<97, 110>>, <<111, 110>>,  \* 0x10..
     <<32, 97>>, <<114, 101>>, <<110, 100>>, <<101, 110>>,  \* 0x14..
     <<97, 116>>, <<101, 100>>, <<111, 114>>, <<101, 115>>,  \* 0x18..
     <<105, 115>>, <<105, 116>>, <<111, 117>>, <<116, 111>>,  \* 0x1C..
     <<105, 110, 103>>, <<32, 116, 111>>, <<32, 105, 115>>, <<32, 105, 110>>,  \* 0x20..
     <<32, 105, 116>>, <<32, 97, 110>>, <<32, 111, 110>>, <<116, 105, 111, 110>>,  \* 0x24..
     <<101, 114, 32>>, <<101, 100, 32>>, <<101, 115, 32>>, <<32, 111, 102>>,  \* 0x28..
     <<111, 102, 32>>, <<97, 110, 100>>, <<32, 97, 110, 100>>, <<102, 111, 114>>,  \* 0x2C..
     <<32, 102, 111, 114>>, <<121, 111, 117>>, <<32, 121, 111, 117>>, <<116, 104, 97>>,  \* 0x30..
     <<116, 104, 97, 116>>, <<32, 116, 104, 97>>, <<104, 97, 116>>, <<97, 108, 108>>,  \* 0x34..
     <<97, 114, 101>>, <<32, 97, 114, 101>>, <<110, 111, 116>>, <<32, 110, 111, 116>>,  \* 0x38..
     <<104, 97, 118, 101>>, <<32, 104, 97, 118>>, <<119, 105, 116, 104>>, <<32, 119, 105, 116>>,  \* 0x3C..
     <<119, 97, 115>>, <<32, 119, 97, 115>>, <<99, 97, 110>>, <<32, 99, 97, 110>>,  \* 0x40..
     <<98, 117, 116>>, <<32, 98, 117, 116>>, <<103, 104, 116>>, <<105, 103, 104>>,  \* 0x44..
     <<105, 110, 103, 32>>, <<101, 110, 116>>, <<105, 111, 110>>, <<104, 101, 114>>,  \* 0x48..
     <<32, 104, 101, 114>>, <<104, 105, 115>>, <<32, 104, 105, 115>>, <<111, 117, 108, 100>>,  \* 0x4C..
     <<111, 109, 101>>, <<111, 117, 116>>, <<32, 111, 117, 116>>, <<116, 104, 105>>,  \* 0x50..
     <<116, 104, 105, 115>>, <<32, 116, 104, 105>>, <<118, 101, 114>>, <<101, 118, 101, 114>>,  \* 0x54..
     <<117, 115, 116>>, <<106, 117, 115, 116>>, <<32, 106, 117, 115>>, <<97, 98, 111>>,  \* 0x58..
     <<97, 98, 111, 117>>, <<103, 101, 116>>, <<32, 103, 101, 116>>, <<119, 104, 101>>,  \* 0x5C..
     <<119, 104, 101, 110>>, <<32, 119, 104, 101>>, <<32, 119, 104>>, <<111, 109, 101, 32>>,  \* 0x60..
     <<104, 101, 114, 101>>, <<32, 104, 101, 114>>, <<116, 104, 101, 114>>, <<102, 114, 111, 109>>,  \* 0x64..
     <<32, 102, 114, 111>>, <<103, 104, 116, 32>>, <<114, 105, 103>>, <<114, 105, 103, 104>>,  \* 0x68..
     <<111, 119>>, <<110, 111, 119>>, <<32, 110, 111, 119>>, <<104, 111, 119>>,  \* 0x6C..
     <<32, 104, 111, 119>>, <<107, 110, 111>>, <<107, 110, 111, 119>>, <<32, 107, 110, 111>>,  \* 0x70..
     <<119, 105, 108, 108>>, <<32, 119, 105, 108>>, <<111, 117, 108, 100, 32>>, <<104, 101, 121>>,  \* 0x74..
     <<116, 104, 101, 121>>, <<32, 116, 104, 101, 32>>, <<108, 105, 107, 101>>, <<32, 108, 105, 107>>,  \* 0x78..
     <<103, 111, 105, 110>>, <<103, 111, 105, 110, 103>>, <<32, 103, 111, 105>>, <<99, 111, 109>>,  \* 0x7C..
     <<99, 111, 109, 101>>, <<32, 99, 111, 109>>, <<108, 111, 111, 107>>, <<32, 108, 111, 111>>,  \* 0x80..
     <<119, 104, 97>>, <<119, 104, 97, 116>>, <<32, 119, 104, 97>>, <<98, 97, 99, 107>>,  \* 0x84..
     <<32, 98, 97, 99>>, <<98, 101, 101, 110>>, <<32, 98, 101, 101>>, <<103, 111, 111, 100>>,  \* 0x88..
     <<32, 103, 111, 111>>, <<110, 101, 101, 100>>, <<32, 110, 101, 101>>, <<104, 101, 108, 112>>,  \* 0x8C..
     <<32, 104, 101, 108>>, <<119, 97, 121>>, <<32, 119, 97, 121>>, <<112, 108, 101>>,  \* 0x90..
     <<108, 101, 97, 115>>, <<101, 97, 115, 101>>, <<116, 104, 97, 110>>, <<104, 97, 110, 107>>,  \* 0x94..
     <<97, 110, 107>>, <<104, 101, 114, 101, 32>>, <<119, 111, 114>>, <<119, 111, 114, 107>>,  \* 0x98..
     <<32, 119, 111, 114>>, <<121, 101, 97, 104>>, <<32, 121, 101, 97>>, <<115, 111, 114>>,  \* 0x9C..
     <<115, 111, 114, 114, 121>>, <<32, 115, 111, 114>>, <<112, 108, 101>>, <<112, 108, 101, 97, 115>>,  \* 0xA0..
     <<108, 101, 97, 115, 101>>, <<111, 107, 97, 121>>, <<32, 111, 107, 97>>, <<109, 97, 121>>,  \* 0xA4..
     <<109, 97, 121, 98, 101>>, <<32, 109, 97, 121>>, <<115, 117, 114, 101>>, <<32, 115, 117, 114>>,  \* 0xA8..
     <<109, 105, 110>>, <<109, 105, 110, 117>>, <<109, 105, 110, 117, 116>>, <<116, 104, 105, 110, 107>>,  \* 0xAC..
     <<32, 116, 104, 105, 110>>, <<32, 116, 104>>, <<100, 111, 110>>, <<100, 111, 110, 39>>,  \* 0xB0..
     <<100, 111, 110, 39, 116>>, <<32, 100, 111>>, <<105, 103, 104, 116>>, <<110, 105, 103, 104, 116>>,  \* 0xB4..
     <<32, 110, 105, 103>>, <<99, 97, 108>>, <<99, 97, 108, 108>>, <<32, 99, 97, 108>>,  \* 0xB8..
     <<109, 111, 114, 110>>, <<109, 111, 114, 110, 105>>, <<32, 109, 111, 114>>, <<115, 101, 101>>,  \* 0xBC..
     <<32, 115, 101, 101>>, <<100, 97, 121>>, <<32, 100, 97, 121>>, <<116, 111, 100, 97, 121>>,  \* 0xC0..
     <<32, 116, 111, 100>>, <<116, 111, 109, 111, 114>>, <<32, 116, 111, 109>>, <<102, 114, 101, 101>>,  \* 0xC4..
     <<32, 102, 114, 101>>, <<100, 105, 110>>, <<100, 105, 110, 110>>, <<100, 105, 110, 110, 101>>,  \* 0xC8..
     <<32, 100, 105, 110>>, <<108, 117, 110, 99, 104>>, <<32, 108, 117, 110>>, <<109, 101, 101, 116>>,  \* 0xCC..
     <<32, 109, 101, 101>>, <<116, 105, 109, 101>>, <<32, 116, 105, 109>>, <<108, 111, 99>>,  \* 0xD0..
     <<108, 111, 99, 97, 116>>, <<32, 108, 111, 99>>, <<104, 101, 97, 100>>, <<32, 104, 101, 97>>,  \* 0xD4..
     <<119, 97, 105, 116>>, <<32, 119, 97, 105>>, <<115, 97, 102, 101>>, <<32, 115, 97, 102>>,  \* 0xD8..
     <<108, 101, 97, 118>>, <<108, 101, 97, 118, 101>>, <<32, 108, 101, 97>>, <<97, 114, 111, 117, 110, 100>>,  \* 0xDC..
     <<32, 97, 114, 111>>, <<115, 116, 97, 121>>, <<32, 115, 116, 97>>, <<101, 109, 101, 114>>,  \* 0xE0..
     <<101, 109, 101, 114, 103>>, <<32, 101, 109, 101>>, <<99, 111, 112, 121>>, <<32, 99, 111, 112>>,  \* 0xE4..
     <<114, 111, 103>>, <<114, 111, 103, 101, 114>>, <<32, 114, 111, 103>>, <<111, 118, 101, 114>>,  \* 0xE8..
     <<32, 111, 118, 101>>, <<97, 99, 107>>, <<32, 97, 99, 107>>, <<39, 115>>,  \* 0xEC..
     <<110, 39, 116>>, <<39, 109>>, <<39, 114, 101>>, <<39, 108, 108>>,  \* 0xF0..
     <<39, 118, 101>>, <<108, 121, 32>>, <<109, 101, 110, 116>>, <<110, 101, 115, 115>>,  \* 0xF4..
     <<97, 98, 108, 101>>, <<102, 117, 108>>, <<116, 105, 111, 110, 32>>, <<46, 32>>,  \* 0xF8..
     <<44, 32>>, <<63, 32>> >>  \* 0xFC..

LITERAL_MARKER == 254

NoChildren == <<>>
TrieNode == [children |-> NoChildren, index |-> -1]

HasChild(node, ch) == ch \in DOMAIN node.children

\* TrieInsert keeping the index a terminal node already has
RECURSIVE TrieInsertKeepFirst(_, _, _, _)
TrieInsertKeepFirst(node, str, c, i) ==
  IF c >= Len(str) THEN (IF node.index >= 0 THEN node ELSE [node EXCEPT !.index = i])
  ELSE LET ch == At(str, c)
           child == IF HasChild(node, ch) THEN node.children[ch] ELSE TrieNode
           grown == TrieInsertKeepFirst(child, str, c + 1, i)
       IN [node EXCEPT !.children = (ch :> grown) @@ node.children]

\* The trie after the path of str from position c on was walked and created,
\* and its last node given index i.
RECURSIVE TrieInsert(_, _, _, _)
TrieInsert(node, str, c, i) ==
  IF c >= Len(str) THEN [node EXCEPT !.index = i]
  ELSE LET ch == At(str, c)
           child == IF HasChild(node, ch) THEN node.children[ch] ELSE TrieNode
           grown == TrieInsert(child, str, c + 1, i)
       IN [node EXCEPT !.children = (ch :> grown) @@ node.children]

\* buildTrie inserting no entry: the bare root
buildTrieRootOnly(codebook) == TrieNode

buildTrie(codebook) ==
  Loop(LAMBDA i, root : TrieInsert(root, At(codebook, i), 0, i), 0, Len(codebook) - 1, TrieNode)

trie == buildTrie(CODEBOOK)

Max(S) == CHOOSE m \in S : \A x \in S : x <= m

MAX_ENTRY_LEN == Max({Len(CODEBOOK[k]) : k \in 1..Len(CODEBOOK)})

\* flushLiterals emitting the pending literal bytes as one escape
flushLiteralsOneEscape(out, literalBuf) ==
  IF Len(literalBuf) = 0 THEN out
  ELSE out \o <<254, Len(literalBuf) % 256>> \o literalBuf

\* flushLiterals: out after the pending literal bytes were emitted in chunks
\* of at most 255.
RECURSIVE flushLiterals(_, _)
flushLiterals(out, literalBuf) ==
  IF Len(literalBuf) = 0 THEN out
  ELSE LET n == IF Len(literalBuf) > 255 THEN 255 ELSE Len(literalBuf)
           chunk == SubSeq(literalBuf, 1, n)
       IN flushLiterals(out \o <<LITERAL_MARKER, Len(chunk)>> \o chunk,
                        SubSeq(literalBuf, n + 1, Len(literalBuf)))

\* The longest-match walk from position pos: [bestIndex, bestLen].
LongestMatch(str, pos) ==
  LET step(i, st) ==
        IF st.stop \/ pos + i >= Len(str) THEN [st EXCEPT !.stop = TRUE]
        ELSE LET ch == At(str, pos + i)
             IN IF ~HasChild(st.node, ch) THEN [st EXCEPT !.stop = TRUE]
                ELSE LET node == st.node.children[ch]
                     IN IF node.index >= 0
                          THEN [node |-> node, stop |-> FALSE,
                                bestIndex |-> node.index, bestLen |-> i + 1]
                          ELSE [st EXCEPT !.node = node]
  IN Loop(step, 0, MAX_ENTRY_LEN - 1,
          [node |-> trie, stop |-> FALSE, bestIndex |-> -1, bestLen |-> 0])

\* The literal bytes pushed for the code unit at pos.
LiteralBytes(str, pos) ==
  LET byte == At(str, pos)
  IN IF byte > 255
       THEN Utf8Encode(<<byte>>)
       ELSE <<byte>>

compress(str) ==
  LET step(n, st) ==
        IF st.pos >= Len(str) THEN st
        ELSE With(LongestMatch(str, st.pos), LAMBDA m :
               IF m.bestLen >= 2 \/ (m.bestLen = 1 /\ m.bestIndex >= 0)
                 THEN [out |-> Append(flushLiterals(st.out, st.literalBuf), m.bestIndex),
                       literalBuf |-> <<>>,
                       pos |-> st.pos + m.bestLen]
                 ELSE [out |-> st.out,
                       literalBuf |-> st.literalBuf \o LiteralBytes(str, st.pos),
                       pos |-> st.pos + 1])
  IN With(Loop(step, 1, Len(str), [out |-> <<>>, literalBuf |-> <<>>, pos |-> 0]),
          LAMBDA end : flushLiterals(end.out, end.literalBuf))

\* decompress copying what is left of the buffer when a literal run is cut
\* short
decompressToTheEnd(buf) ==
  LET step(n, st) ==
        IF ~st.ok \/ st.pos >= Len(buf) THEN st
        ELSE LET byte == At(buf, st.pos)
                 len == IF st.pos + 1 >= Len(buf) THEN 0 ELSE At(buf, st.pos + 1)
                 last == IF st.pos + 2 + len > Len(buf) THEN Len(buf) ELSE st.pos + 2 + len
             IN IF byte = LITERAL_MARKER
                  THEN [ok |-> TRUE,
                        parts |-> st.parts \o Utf8Decode(Slice(buf, st.pos + 2, last)),
                        pos |-> last]
                ELSE IF byte = 255 THEN Err("Reserved byte 0xFF encountered")
                ELSE IF byte >= Len(CODEBOOK) THEN Err("Invalid codebook index")
                ELSE [ok |-> TRUE,
                      parts |-> st.parts \o At(CODEBOOK, byte),
                      pos |-> st.pos + 1]
  IN With(Loop(step, 1, Len(buf), [ok |-> TRUE, parts |-> <<>>, pos |-> 0]),
          LAMBDA end : IF end.ok THEN Ok(end.parts) ELSE end)

\* One iteration of decompress's while loop that leaves a literal run where
\* it began
decompressStepInPlace(buf, st) ==
  IF At(buf, st.pos) = LITERAL_MARKER THEN st
  ELSE IF At(buf, st.pos) = 255 THEN Err("Reserved byte 0xFF encountered")
  ELSE [ok |-> TRUE, parts |-> st.parts \o At(CODEBOOK, At(buf, st.pos)), pos |-> st.pos + 1]

\* One iteration of decompress's while loop, entered with st.pos < buf.length:
\* the parts and the position after it, or the error thrown.
decompressStep(buf, st) ==
  LET byte == At(buf, st.pos)
      len == At(buf, st.pos + 1)
  IN IF byte = LITERAL_MARKER
       THEN IF st.pos + 1 >= Len(buf) THEN Err("Truncated literal marker")
            ELSE IF st.pos + 2 + len > Len(buf) THEN Err("Truncated literal data")
            ELSE [ok |-> TRUE,
                  parts |-> st.parts
                              \o Utf8Decode(Slice(buf, st.pos + 2, st.pos + 2 + len)),
                  pos |-> st.pos + 2 + len]
     ELSE IF byte = 255 THEN Err("Reserved byte 0xFF encountered")
     ELSE IF byte >= Len(CODEBOOK) THEN Err("Invalid codebook index")
     ELSE [ok |-> TRUE,
           parts |-> st.parts \o At(CODEBOOK, byte),
           pos |-> st.pos + 1]

\* The while loop runs at most buf.length iterations.
decompress(buf) ==
  With(Loop(LAMBDA n, st : IF ~st.ok \/ st.pos >= Len(buf) THEN st ELSE decompressStep(buf, st),
            1, Len(buf), [ok |-> TRUE, parts |-> <<>>, pos |-> 0]),
       LAMBDA end : IF end.ok THEN Ok(end.parts) ELSE end)

(***************************************************************************)
(* Codebook templates: the 64 simple templates, and the parameterised      *)
(* template 'eta' (one parameter byte)                                     *)
(***************************************************************************)
SimpleTemplates ==
  << [id |-> 0, name |-> "ok", text |-> <<73, 39, 109, 32, 79, 75>>, hasParams |-> FALSE],
     [id |-> 1, name |-> "need_help", text |-> <<78, 101, 101, 100, 32, 104, 101, 108, 112>>, hasParams |-> FALSE],
     [id |-> 2, name |-> "emergency", text |-> <<69, 109, 101, 114, 103, 101, 110, 99, 121, 33>>, hasParams |-> FALSE],
     [id |-> 3, name |-> "yes", text |-> <<89, 101, 115>>, hasParams |-> FALSE],
     [id |-> 4, name |-> "no", text |-> <<78, 111>>, hasParams |-> FALSE],
     [id |-> 5, name |-> "maybe", text |-> <<77, 97, 121, 98, 101>>, hasParams |-> FALSE],
     [id |-> 6, name |-> "on_my_way", text |-> <<79, 110, 32, 109, 121, 32, 119, 97, 121>>, hasParams |-> FALSE],
     [id |-> 7, name |-> "call_me", text |-> <<67, 97, 108, 108, 32, 109, 101>>, hasParams |-> FALSE],
     [id |-> 8, name |-> "copy", text |-> <<67, 111, 112, 121>>, hasParams |-> FALSE],
     [id |-> 9, name |-> "roger", text |-> <<82, 111, 103, 101, 114>>, hasParams |-> FALSE],
     [id |-> 10, name |-> "thanks", text |-> <<84, 104, 97, 110, 107, 115>>, hasParams |-> FALSE],
     [id |-> 11, name |-> "please", text |-> <<80, 108, 101, 97, 115, 101>>, hasParams |-> FALSE],
     [id |-> 12, name |-> "sorry", text |-> <<83, 111, 114, 114, 121>>, hasParams |-> FALSE],
     [id |-> 13, name |-> "hello", text |-> <<72, 101, 108, 108, 111>>, hasParams |-> FALSE],
     [id |-> 14, name |-> "goodbye", text |-> <<71, 111, 111, 100, 98, 121, 101>>, hasParams |-> FALSE],
     [id |-> 15, name |-> "good_morning", text |-> <<71, 111, 111, 100, 32, 109, 111, 114, 110, 105, 110, 103>>, hasParams |-> FALSE],
     [id |-> 16, name |-> "good_night", text |-> <<71, 111, 111, 100, 32, 110, 105, 103, 104, 116>>, hasParams |-> FALSE],
     [id |-> 17, name |-> "safe", text |-> <<73, 39, 109, 32, 115, 97, 102, 101>>, hasParams |-> FALSE],
     [id |-> 18, name |-> "help_coming", text |-> <<72, 101, 108, 112, 32, 105, 115, 32, 99, 111, 109, 105, 110, 103>>, hasParams |-> FALSE],
     [id |-> 19, name |-> "stay_put", text |-> <<83, 116, 97, 121, 32, 112, 117, 116>>, hasParams |-> FALSE],
     [id |-> 20, name |-> "move_out", text |-> <<77, 111, 118, 101, 32, 111, 117, 116>>, hasParams |-> FALSE],
     [id |-> 21, name |-> "all_clear", text |-> <<65, 108, 108, 32, 99, 108, 101, 97, 114>>, hasParams |-> FALSE],
     [id |-> 22, name |-> "danger", text |-> <<68, 97, 110, 103, 101, 114>>, hasParams |-> FALSE],
     [id |-> 23, name |-> "stop", text |-> <<83, 116, 111, 112>>, hasParams |-> FALSE],
     [id |-> 24, name |-> "go", text |-> <<71, 111>>, hasParams |-> FALSE],
     [id |-> 25, name |-> "wait", text |-> <<87, 97, 105, 116>>, hasParams |-> FALSE],
     [id |-> 26, name |-> "affirmative", text |-> <<65, 102, 102, 105, 114, 109, 97, 116, 105, 118, 101>>, hasParams |-> FALSE],
     [id |-> 27, name |-> "negative", text |-> <<78, 101, 103, 97, 116, 105, 118, 101>>, hasParams |-> FALSE],
     [id |-> 28, name |-> "check_in", text |-> <<67, 104, 101, 99, 107, 105, 110, 103, 32, 105, 110>>, hasParams |-> FALSE],
     [id |-> 29, name |-> "heading_home", text |-> <<72, 101, 97, 100, 105, 110, 103, 32, 104, 111, 109, 101>>, hasParams |-> FALSE],
     [id |-> 30, name |-> "arrived", text |-> <<65, 114, 114, 105, 118, 101, 100>>, hasParams |-> FALSE],
     [id |-> 31, name |-> "leaving_now", text |-> <<76, 101, 97, 118, 105, 110, 103, 32, 110, 111, 119>>, hasParams |-> FALSE],
     [id |-> 32, name |-> "be_right_back", text |-> <<66, 101, 32, 114, 105, 103, 104, 116, 32, 98, 97, 99, 107>>, hasParams |-> FALSE],
     [id |-> 33, name |-> "brb", text |-> <<66, 82, 66>>, hasParams |-> FALSE],
     [id |-> 34, name |-> "sos", text |-> <<83, 79, 83>>, hasParams |-> FALSE],
     [id |-> 35, name |-> "mayday", text |-> <<77, 97, 121, 100, 97, 121>>, hasParams |-> FALSE],
     [id |-> 36, name |-> "send_help", text |-> <<83, 101, 110, 100, 32, 104, 101, 108, 112>>, hasParams |-> FALSE],
     [id |-> 37, name |-> "lost", text |-> <<73, 39, 109, 32, 108, 111, 115, 116>>, hasParams |-> FALSE],
     [id |-> 38, name |-> "found_it", text |-> <<70, 111, 117, 110, 100, 32, 105, 116>>, hasParams |-> FALSE],
     [id |-> 39, name |-> "send_coords", text |-> <<83, 101, 110, 100, 32, 99, 111, 111, 114, 100, 105, 110, 97, 116, 101, 115>>, hasParams |-> FALSE],
     [id |-> 40, name |-> "low_battery", text |-> <<76, 111, 119, 32, 98, 97, 116, 116, 101, 114, 121>>, hasParams |-> FALSE],
     [id |-> 41, name |-> "charging", text |-> <<67, 104, 97, 114, 103, 105, 110, 103>>, hasParams |-> FALSE],
     [id |-> 42, name |-> "no_signal", text |-> <<78, 111, 32, 115, 105, 103, 110, 97, 108>>, hasParams |-> FALSE],
     [id |-> 43, name |-> "weak_signal", text |-> <<87, 101, 97, 107, 32, 115, 105, 103, 110, 97, 108>>, hasParams |-> FALSE],
     [id |-> 44, name |-> "strong_signal", text |-> <<83, 116, 114, 111, 110, 103, 32, 115, 105, 103, 110, 97, 108>>, hasParams |-> FALSE],
     [id |-> 45, name |-> "rain", text |-> <<82, 97, 105, 110>>, hasParams |-> FALSE],
     [id |-> 46, name |-> "clear_sky", text |-> <<67, 108, 101, 97, 114, 32, 115, 107, 121>>, hasParams |-> FALSE],
     [id |-> 47, name |-> "overcast", text |-> <<79, 118, 101, 114, 99, 97, 115, 116>>, hasParams |-> FALSE],
     [id |-> 48, name |-> "windy", text |-> <<87, 105, 110, 100, 121>>, hasParams |-> FALSE],
     [id |-> 49, name |-> "fog", text |-> <<70, 111, 103>>, hasParams |-> FALSE],
     [id |-> 50, name |-> "snow", text |-> <<83, 110, 111, 119>>, hasParams |-> FALSE],
     [id |-> 51, name |-> "storm", text |-> <<83, 116, 111, 114, 109>>, hasParams |-> FALSE],
     [id |-> 52, name |-> "understood", text |-> <<85, 110, 100, 101, 114, 115, 116, 111, 111, 100>>, hasParams |-> FALSE],
     [id |-> 53, name |-> "repeat", text |-> <<83, 97, 121, 32, 97, 103, 97, 105, 110>>, hasParams |-> FALSE],
     [id |-> 54, name |-> "over_out", text |-> <<79, 118, 101, 114, 32, 97, 110, 100, 32, 111, 117, 116>>, hasParams |-> FALSE],
     [id |-> 55, name |-> "standing_by", text |-> <<83, 116, 97, 110, 100, 105, 110, 103, 32, 98, 121>>, hasParams |-> FALSE],
     [id |-> 56, name |-> "busy", text |-> <<66, 117, 115, 121>>, hasParams |-> FALSE],
     [id |-> 57, name |-> "free", text |-> <<70, 114, 101, 101>>, hasParams |-> FALSE],
     [id |-> 58, name |-> "meet_up", text |-> <<77, 101, 101, 116, 32, 117, 112, 63>>, hasParams |-> FALSE],
     [id |-> 59, name |-> "come_here", text |-> <<67, 111, 109, 101, 32, 104, 101, 114, 101>>, hasParams |-> FALSE],
     [id |-> 60, name |-> "run", text |-> <<82, 117, 110, 33>>, hasParams |-> FALSE],
     [id |-> 61, name |-> "hide", text |-> <<72, 105, 100, 101>>, hasParams |-> FALSE],
     [id |-> 62, name |-> "quiet", text |-> <<66, 101, 32, 113, 117, 105, 101, 116>>, hasParams |-> FALSE],
     [id |-> 63, name |-> "listen", text |-> <<76, 105, 115, 116, 101, 110>>, hasParams |-> FALSE] >>

\* The decimal digits of n >= 0 as code units (String(n)).
RECURSIVE DecimalString(_)
DecimalString(n) ==
  IF n < 10 THEN <<48 + n>> ELSE Append(DecimalString(n \div 10), 48 + (n % 10))

EtaTemplate == [id |-> 65, name |-> "eta", text |-> <<69, 84, 65>>, hasParams |-> TRUE]

TEMPLATES == Append(SimpleTemplates, EtaTemplate)

\* The id and name of every defineParam call, in the order of the calls
ParamTemplateKeys ==
  << [id |-> 64, name |-> "location"], [id |-> 65, name |-> "eta"],
     [id |-> 66, name |-> "weather"], [id |-> 67, name |-> "switch_channel"],
     [id |-> 68, name |-> "heading"], [id |-> 69, name |-> "altitude"],
     [id |-> 70, name |-> "speed"], [id |-> 71, name |-> "battery"],
     [id |-> 72, name |-> "headcount"], [id |-> 73, name |-> "short_text"] >>

NoParams == [none |-> TRUE]   \* params undefined

\* BY_NAME and BY_ID: the template registered last under the name or id.
TemplatesNamed(name) == {k \in 1..Len(TEMPLATES) : TEMPLATES[k].name = name}
TemplatesWithId(id) == {k \in 1..Len(TEMPLATES) : TEMPLATES[k].id = id}
BY_NAME(name) == TEMPLATES[Max(TemplatesNamed(name))]
\* BY_ID indexed by the id's low five bits
BY_ID_FiveBits(id) == TEMPLATES[(id % 32) + 1]
BY_ID(id) == TEMPLATES[Max(TemplatesWithId(id))]

\* eta: Math.min(255, Math.max(0, Math.round(params.minutes)))
etaEncodeParams(params) ==
  <<IF params.minutes > 255 THEN 255 ELSE IF params.minutes < 0 THEN 0 ELSE params.minutes>>

etaFormat(minutes) == <<69, 84, 65, 32>> \o DecimalString(minutes) \o <<32, 109, 105, 110, 117, 116, 101, 115>>

\* BY_NAME is a plain object: a name inherited from Object.prototype looks up
\* a function, which is truthy and has neither hasParams nor id, and
\* Buffer.from([undefined]) is one zero byte.
codebookEncode(templateName, params) ==
  IF templateName \in ObjectPrototypeNames THEN Ok(<<0>>)
  ELSE IF TemplatesNamed(templateName) = {} THEN Err("Unknown template")
  ELSE With(BY_NAME(templateName), LAMBDA tmpl :
         IF tmpl.hasParams
           THEN IF params = NoParams THEN Err("Template requires params")
                ELSE Ok(<<tmpl.id>> \o etaEncodeParams(params))
           ELSE Ok(<<tmpl.id>>))

codebookDecode(buf) ==
  IF Len(buf) = 0 THEN Err("Empty codebook buffer")
  ELSE IF TemplatesWithId(At(buf, 0)) = {} THEN Err("Unknown template ID")
  ELSE With(BY_ID(At(buf, 0)), LAMBDA tmpl :
         IF tmpl.hasParams
           THEN IF 1 + 1 > Len(buf) THEN Err("Truncated ETA params")
                ELSE Ok([template |-> tmpl.name, text |-> etaFormat(At(buf, 1)),
                         params |-> [minutes |-> At(buf, 1)]])
           ELSE Ok([template |-> tmpl.name, text |-> tmpl.text, params |-> NoParams]))

(***************************************************************************)
(* Packet framing                                                          *)
(***************************************************************************)
PACKET_VERSION == 1
MAX_PACKET_SIZE == 237
HEADER_SIZE == 2

COMP_MAP == [none |-> 0, smaz |-> 1, codebook |-> 2]
FEC_MAP == [none |-> 0, low |-> 1, medium |-> 2, high |-> 3]

\* COMP_REVERSE and FEC_REVERSE: the name of a code, "" where the lookup is undefined
COMP_REVERSE(code) ==
  IF code = 0 THEN "none" ELSE IF code = 1 THEN "smaz" ELSE IF code = 2 THEN "codebook" ELSE ""
\* FEC_REVERSE with every code beyond 3 read as the strongest level
FEC_REVERSE_Lenient(code) ==
  IF code = 0 THEN "none" ELSE IF code = 1 THEN "low" ELSE IF code = 2 THEN "medium" ELSE "high"

FEC_REVERSE(code) ==
  IF code = 0 THEN "none" ELSE IF code = 1 THEN "low" ELSE IF code = 2 THEN "medium"
  ELSE IF code = 3 THEN "high" ELSE ""

\* encodeHeader with the nibbles of each byte in the other order
encodeHeaderSwapped(version, compType, fecLevel, flags) ==
  <<(compType % 16) * 16 + (version % 16), (flags % 16) * 16 + (fecLevel % 16)>>

encodeHeader(version, compType, fecLevel, flags) ==
  <<(version % 16) * 16 + (compType % 16), (fecLevel % 16) * 16 + (flags % 16)>>

\* decodeHeader masking the flags with 0x7: reserved bit 3 is dropped
decodeHeaderThreeFlagBits(buf) ==
  [version |-> (At(buf, 0) \div 16) % 16,
   compType |-> At(buf, 0) % 16,
   fecLevel |-> (At(buf, 1) \div 16) % 16,
   flags |-> At(buf, 1) % 8]

decodeHeader(buf) ==
  [version |-> (At(buf, 0) \div 16) % 16,
   compType |-> At(buf, 0) % 16,
   fecLevel |-> (At(buf, 1) \div 16) % 16,
   flags |-> At(buf, 1) % 16]

NoTemplate == ""   \* options.template undefined

\* The defaults createPacket fills in for an empty options object
DefaultOptions ==
  [compression |-> "smaz", fec |-> "medium", template |-> NoTemplate,
   params |-> NoParams, flags |-> 0]

\* The payload left undefined: no case of the switch matched
NoPayload == [ok |-> FALSE, err |-> "payload undefined"]

\* Step 1 of createPacket: the payload
CompressPayload(message, options) ==
  IF options.compression = "smaz" THEN Ok(compress(message))
  ELSE IF options.compression = "codebook"
    THEN IF options.template = NoTemplate
           THEN Err("Codebook compression requires 'template' option")
           ELSE codebookEncode(options.template, options.params)
  ELSE IF options.compression = "none" THEN Ok(Utf8Encode(message))
  ELSE NoPayload

\* COMP_MAP[name] & 0xF and FEC_MAP[name] & 0xF
CodeOf(obj, name) == IF name \in DOMAIN obj THEN obj[name] ELSE 0

\* createPacket without the size check
PacketNeverTooLarge(packet) == FALSE

\* The size check refusing, beside a packet over the limit, one with no body
PacketEmptyOrTooLarge(packet) ==
  Len(packet) <= HEADER_SIZE \/ Len(packet) > MAX_PACKET_SIZE

\* The size check on the assembled packet
PacketTooLarge(packet) == Len(packet) > MAX_PACKET_SIZE

createPacket(cache, message, options) ==
  LET header == encodeHeader(PACKET_VERSION, CodeOf(COMP_MAP, options.compression),
                             CodeOf(FEC_MAP, options.fec), options.flags % 16)
      stats(payload, fecData, packet, originalSize) ==
        [originalSize |-> originalSize,
         compressedSize |-> Len(payload),
         fecBytes |-> IF options.fec # "none" THEN Len(fecData) - Len(payload) ELSE 0,
         headerBytes |-> HEADER_SIZE,
         totalSize |-> Len(packet),
         overhead |-> Len(packet) - originalSize]
  IN IF ~In(options.compression, COMP_MAP) THEN Err("Unknown compression")
     ELSE IF ~In(options.fec, FEC_MAP) THEN Err("Unknown FEC level")
     ELSE With(CompressPayload(message, options), LAMBDA payload :
       \* an undefined payload: Uint8Array.from or Buffer.concat throws
       IF payload = NoPayload THEN Err("TypeError")
       ELSE IF ~payload.ok THEN payload
       ELSE With(IF options.fec # "none"
                   THEN fecEncode(cache, payload.val, options.fec)
                   ELSE payload,
                 LAMBDA fecData :
         IF ~fecData.ok THEN fecData
         ELSE With(header \o fecData.val, LAMBDA packet :
           IF PacketTooLarge(packet) THEN Err("Packet too large")
           ELSE Ok([packet |-> packet,
                    stats |-> stats(payload.val, fecData.val, packet,
                                    Len(Utf8Encode(message)))]))))

\* generatorCache after createPacket: fec.encode is reached only with valid
\* options, a payload and a FEC level other than none.
createPacketCache(cache, message, options) ==
  IF /\ In(options.compression, COMP_MAP)
     /\ In(options.fec, FEC_MAP)
     /\ options.fec # "none"
    THEN With(CompressPayload(message, options), LAMBDA payload :
           IF payload.ok THEN fecEncodeCache(cache, payload.val, options.fec) ELSE cache)
    ELSE cache

\* A packet argument: bytes, or not given at all (null or undefined).
Given(bytes) == [given |-> TRUE, bytes |-> bytes]
Missing == [given |-> FALSE, bytes |-> <<>>]

\* Step 4 of parsePacket: the inverse of the compression
DecompressPayload(compression, bytes) ==
  IF compression = "smaz" THEN decompress(bytes)
  ELSE IF compression = "codebook"
    THEN With(codebookDecode(bytes), LAMBDA d : IF d.ok THEN Ok(d.val.text) ELSE d)
  ELSE Ok(Utf8Decode(bytes))

\* The outcome of parsePacket carries, beside the result or the error, the
\* stages that ran ("fec" for fec.decode, "decompress" for step 4).
parsePacket(packet) ==
  LET buf == packet.bytes
      fail(e, ran) == [ok |-> FALSE, err |-> e, ran |-> ran]
      ranFec(fecLevel) == IF fecLevel # "none" THEN <<"fec">> ELSE <<>>
      stats(fecLevel, payload) ==
        [packetSize |-> Len(buf), payloadSize |-> Len(payload),
         fecBytes |-> IF fecLevel # "none" THEN parityBytes(fecLevel) ELSE 0,
         headerBytes |-> HEADER_SIZE]
  IN IF ~packet.given \/ Len(buf) < HEADER_SIZE THEN fail("Packet too small", <<>>)
     ELSE With(decodeHeader(buf), LAMBDA header :
       IF header.version # PACKET_VERSION THEN fail("Unsupported packet version", <<>>)
       ELSE With(COMP_REVERSE(header.compType), LAMBDA compression :
            With(FEC_REVERSE(header.fecLevel), LAMBDA fecLevel :
         IF compression = "" THEN fail("Unknown compression type", <<>>)
         ELSE IF fecLevel = "" THEN fail("Unknown FEC level", <<>>)
         ELSE With(IF fecLevel # "none"
                     THEN fecDecode(Slice(buf, HEADER_SIZE, Len(buf)), fecLevel)
                     ELSE Ok(Slice(buf, HEADER_SIZE, Len(buf))),
                   LAMBDA unfec :
           IF ~unfec.ok THEN fail(unfec.err, ranFec(fecLevel))
           ELSE With(DecompressPayload(compression, unfec.val), LAMBDA message :
             IF ~message.ok THEN fail(message.err, Append(ranFec(fecLevel), "decompress"))
             ELSE [ok |-> TRUE,
                   val |-> [message |-> message.val,
                            header |-> [version |-> header.version,
                                        compression |-> compression,
                                        fec |-> fecLevel, flags |-> header.flags],
                            stats |-> stats(fecLevel, unfec.val)],
                   ran |-> Append(ranFec(fecLevel), "decompress")])))))

(***************************************************************************)
(* The C firmware FEC (MeshXTFEC): tables, encoder, syndromes, and the      *)
(* encode/decode entry points.  A call returns the int result and the      *)
(* bytes written to output.                                                *)
(***************************************************************************)
\* meshxt_fec_init: gf_exp and gf_log after the two loops
meshxt_fec_init ==
  LET step(i, st) ==
        [gf_exp |-> Put(st.gf_exp, i, st.x % 256),
         gf_log |-> Put(st.gf_log, st.x, i % 256),
         x |-> IF ((2 * st.x) \div 256) % 2 = 1 THEN BitXor(2 * st.x, PRIM_POLY) ELSE 2 * st.x]
      wrap(i, e) == Put(e, i, At(e, i - 255))
  IN With(Loop(step, 0, 254, [gf_exp |-> Zeros(512), gf_log |-> Zeros(256), x |-> 1]),
          LAMBDA first : [gf_exp |-> Loop(wrap, 255, 511, first.gf_exp), gf_log |-> first.gf_log])

gf_exp == meshxt_fec_init.gf_exp
gf_log == meshxt_fec_init.gf_log

gf_mul(a, b) ==
  IF a = 0 \/ b = 0 THEN 0
  ELSE At(gf_exp, At(gf_log, a) + At(gf_log, b))

\* rs_encode, first part: gen[0..nsym] after the generator loop.  gen[j] is
\* built as the coefficient of x^j.
rs_encode_gen(nsym) ==
  Loop(LAMBDA i, gen :
         With(Loop(LAMBDA k, g :
                     Put(g, nsym - k,
                         XOR(At(g, nsym - k - 1), gf_mul(At(g, nsym - k), At(gf_exp, i)))),
                   0, nsym - 1, gen),
              LAMBDA shifted : Put(shifted, 0, gf_mul(At(shifted, 0), At(gf_exp, i)))),
       0, nsym - 1, <<1>> \o Zeros(nsym))

\* The generators rs_encode builds for the three parity counts, built once
\* for the model's evaluation.
FirmwareGenerators == [n \in {16, 32, 64} |-> rs_encode_gen(n)] @@ <<>>

\* rs_encode: the parity written
rs_encode(msg, nsym) ==
  With(FirmwareGenerators[nsym], LAMBDA gen :
    Slice(Loop(LAMBDA i, feedback :
                 With(At(feedback, i), LAMBDA coef :
                   IF coef # 0
                     THEN Loop(LAMBDA j, fb :
                                 Put(fb, i + j, XOR(At(fb, i + j), gf_mul(At(gen, j), coef))),
                               1, nsym, feedback)
                     ELSE feedback),
               0, Len(msg) - 1, msg \o Zeros(nsym)),
          Len(msg), Len(msg) + nsym))

rs_syndromes(msg, nsym) ==
  Loop(LAMBDA i, synd :
         Append(synd, Loop(LAMBDA j, sy : XOR(gf_mul(sy, At(gf_exp, i)), At(msg, j)),
                           0, Len(msg) - 1, 0)),
       0, nsym - 1, <<>>)

rs_check(synd, nsym) == \A i \in 0..(nsym - 1) : At(synd, i) = 0

MESHXT_FEC_LEVELS == {16, 32, 64}   \* MESHXT_FEC_LOW, _MEDIUM, _HIGH

meshxt_fec_encode(bytes, nsym) ==
  IF Len(bytes) + nsym > 255 THEN [ret |-> -1, output |-> <<>>]
  ELSE IF nsym \notin MESHXT_FEC_LEVELS THEN [ret |-> -1, output |-> <<>>]
  ELSE [ret |-> Len(bytes) + nsym, output |-> bytes \o rs_encode(bytes, nsym)]

meshxt_fec_decode(bytes, nsym) ==
  IF Len(bytes) < nsym THEN [ret |-> -1, output |-> <<>>]
  ELSE IF rs_check(rs_syndromes(bytes, nsym), nsym)
    THEN [ret |-> Len(bytes) - nsym, output |-> Slice(bytes, 0, Len(bytes) - nsym)]
  ELSE [ret |-> -1, output |-> <<>>]

(***************************************************************************)
(* Inputs of the FEC harness                                               *)
(***************************************************************************)
Repeat(v, n) == Loop(LAMBDA i, s : Append(s, v), 1, n, <<>>)

RECURSIVE SeqsUpTo(_, _)
SeqsUpTo(S, n) ==
  IF n = 0 THEN {<<>>}
  ELSE LET shorter == SeqsUpTo(S, n - 1)
       IN shorter \cup {Append(s, v) : s \in {t \in shorter : Len(t) = n - 1}, v \in S}

FecByteValues == {0, 65}

\* The messages given to fec.encode.  At level low: every short message, and
\* the 20-byte message of the documented scenario.  At the other levels: the
\* empty and the one-byte message, and the 100-byte message of the documented
\* scenario.  At every level: the longest message that fits a 255-symbol
\* codeword and the shortest that does not.
FecData(lv) ==
  (IF lv = "low"
     THEN SeqsUpTo(FecByteValues, MaxDataLen) \cup {Repeat(65, 20)}
     ELSE {<<>>, <<65>>} \cup (IF lv = "medium" THEN {Repeat(65, 100)} ELSE {}))
    \cup {Repeat(66, 255 - parityBytes(lv)), Repeat(66, 256 - parityBytes(lv))}

\* Changes made to a block of n bytes in transit: k bytes from offset start
\* on, stride apart, each XORed with mask.  t is the level's capacity, p its
\* parity count.  A short block of level low gets every combination of 1, 2,
\* t, t + 1 or p adjacent bytes, at the first message byte, at the first
\* parity byte and at the end of the block; any other block gets five of
\* them.  Every block gets its first and last byte changed together, and t
\* bytes two and three apart.
ErrorPatterns(lv, n) ==
  LET t == maxCorrectableErrors(lv)
      p == parityBytes(lv)
      all == UNION {{[start |-> s, k |-> k, stride |-> 1, mask |-> m] :
                       s \in {0, n - p, n - k}, m \in {1, 255}} :
                      k \in {1, 2, t, t + 1, p}}
      few == {[start |-> 0, k |-> 1, stride |-> 1, mask |-> 1],
              [start |-> n - p, k |-> p, stride |-> 1, mask |-> 1],
              [start |-> n - 1, k |-> 1, stride |-> 1, mask |-> 1],
              [start |-> n - t, k |-> t, stride |-> 1, mask |-> 255],
              [start |-> n - p, k |-> t + 1, stride |-> 1, mask |-> 255]}
      apart == {[start |-> 0, k |-> 2, stride |-> n - 1, mask |-> 1],
                [start |-> 0, k |-> t, stride |-> 2, mask |-> 255],
                [start |-> 1, k |-> t, stride |-> 3, mask |-> 7]}
  IN {e \in (IF lv = "low" /\ n <= MaxDataLen + p THEN all ELSE few) \cup apart :
        e.start >= 0 /\ e.stride >= 1 /\ e.start + (e.k - 1) * e.stride < n}

\* The offsets a change pattern touches
Touched(start, k, stride) == {start + i * stride : i \in 0..(k - 1)}

Corrupted(blk, start, k, stride, mask) ==
  Loop(LAMBDA i, b : Put(b, start + i * stride, XOR(At(b, start + i * stride), mask)),
       0, k - 1, blk)

\* The firmware harness before any call
NoFirmwareCall ==
  [data |-> <<>>, nsym |-> 0,
   encoded |-> [ret |-> -1, output |-> <<>>], decoded |-> [ret |-> -1, output |-> <<>>]]

\* The codebook harness before any call
NoCodebookCase == [name |-> "", params |-> [none |-> TRUE], encoded |-> None, decoded |-> None]

\* The field harness before any call: no operands, no results
NoGfCase ==
  [a |-> 0, b |-> 0, product |-> 0, quotient |-> 0, inverse |-> 0, unit |-> 0,
   power |-> 0, raised |-> 0]

(***************************************************************************)
(* State machine of the FEC harness: fec.encode, transit, fec.decode       *)
(***************************************************************************)
EmptyCache == [k \in CacheKeys |-> Absent]

\* The state after the modules are loaded: tables built, generator cache
\* empty, no call made yet.
Init ==
  /\ generatorCache = EmptyCache
  /\ call = "init"
  /\ data = <<>>
  /\ level = "low"
  /\ encoded = None
  /\ block = <<>>
  /\ errs = {}
  /\ decoded = None
  /\ corrected = <<>>
  /\ text = <<>>
  /\ compressed = None
  /\ decompressed = None
  /\ pktMsg = <<>>
  /\ pktOpts = DefaultOptions
  /\ created = None
  /\ pkt = Missing
  /\ codebookCase = NoCodebookCase
  /\ parseLoop = [buf |-> <<>>, st |-> [ok |-> TRUE, parts |-> <<>>, pos |-> 0]]
  /\ pktErrs = {}
  /\ parsed = None
  /\ gfCase = NoGfCase
  /\ session = [op |-> "load", returned |-> TRUE, before |-> EmptyCache]
  /\ firmware = NoFirmwareCall

FecEncode ==
  /\ call = "init"
  /\ \E lv \in LevelNames : \E d \in FecData(lv) :
       /\ data' = d
       /\ level' = lv
       /\ encoded' = fecEncode(generatorCache, d, lv)
       /\ generatorCache' = fecEncodeCache(generatorCache, d, lv)
       /\ block' = IF encoded'.ok THEN encoded'.val ELSE <<>>
  /\ call' = "fec.encode"
  /\ UNCHANGED <<gfCase, session, firmware, codebookCase, errs, decoded, corrected, cmpVars, pktVars, parseLoop>>

Corrupt ==
  /\ call = "fec.encode"
  /\ encoded.ok
  /\ \E e \in ErrorPatterns(level, Len(block)) :
       /\ block' = Corrupted(block, e.start, e.k, e.stride, e.mask)
       /\ errs' = Touched(e.start, e.k, e.stride)
  /\ call' = "corrupt"
  /\ UNCHANGED <<gfCase, session, firmware, codebookCase, generatorCache, data, level, encoded, decoded, corrected, cmpVars, pktVars, parseLoop>>

\* Transit in which the block of another message of the same length arrives
\* in place of the block sent.
Substitute ==
  /\ call = "fec.encode"
  /\ encoded.ok
  /\ \E other \in {d \in FecData(level) : Len(d) = Len(data) /\ d # data} :
       \E blk \in {fecEncode(generatorCache, other, level).val} :
         /\ block' = blk
         /\ errs' = {i \in 0..(Len(blk) - 1) : At(blk, i) # At(block, i)}
  /\ call' = "corrupt"
  /\ UNCHANGED <<gfCase, session, firmware, codebookCase, generatorCache, data, level, encoded, decoded, corrected, cmpVars, pktVars, parseLoop>>

FecDecode ==
  /\ call \in {"fec.encode", "corrupt"}
  /\ encoded.ok
  /\ \E r \in {fecDecode(block, level)} :
       /\ decoded' = IF r.ok THEN Ok(r.val) ELSE r
       /\ corrected' = IF r.ok THEN r.from ELSE <<>>
  /\ call' = "fec.decode"
  /\ UNCHANGED <<gfCase, session, firmware, codebookCase, generatorCache, data, level, encoded, block, errs, cmpVars, pktVars, parseLoop>>

NextFec == FecEncode \/ Corrupt \/ Substitute \/ FecDecode

SpecFec == Init /\ [][NextFec]_vars

(***************************************************************************)
(* State machine of the compression harness: compress, then decompress     *)
(***************************************************************************)
MaxTextLen == 3      \* longest string of the short cases

\* Code units the short strings are made of: ' ', 't', 'h', 'e' (dictionary
\* entries and parts of longer ones), 'Z' (in no entry), U+00E9, U+20AC and
\* the surrogate pair of U+1F600.
TextUnits == {32, 116, 104, 101, 90, 233, 8364, 55357, 56832}

\* Literal runs longer than one escape: 256 unmatched characters, and 254 of
\* them followed by a three-byte character.
LongTexts == {Repeat(90, 256), Append(Repeat(90, 254), 8364)}

\* Every dictionary entry on its own
EntryTexts == {CODEBOOK[k] : k \in 1..Len(CODEBOOK)}

\* The strings given to compress: the short ones, the long ones, every
\* dictionary entry, and every entry between two unmatched characters.
Texts ==
  SeqsUpTo(TextUnits, MaxTextLen) \cup LongTexts \cup EntryTexts
    \cup {<<90>> \o e \o <<90>> : e \in EntryTexts}

Compress ==
  /\ call = "init"
  /\ \E t \in Texts :
       /\ text' = t
       /\ compressed' = Ok(compress(t))
  /\ call' = "compress"
  /\ UNCHANGED <<gfCase, session, firmware, codebookCase, generatorCache, decompressed, fecVars, pktVars, parseLoop>>

Decompress ==
  /\ call = "compress"
  /\ decompressed' = decompress(compressed.val)
  /\ call' = "decompress"
  /\ UNCHANGED <<gfCase, session, firmware, codebookCase, generatorCache, text, compressed, fecVars, pktVars, parseLoop>>

MaxRawLen == 3       \* longest buffer of the short cases given to decompress alone

\* Buffers given to decompress that compress did not make: every single
\* byte, every short buffer of index bytes, escapes, small lengths and the
\* reserved byte, and a 255-byte literal run whole and cut short by one byte.
RawBuffers ==
  {<<b>> : b \in 0..255}
    \cup SeqsUpTo({0, 1, 2, 65, 253, 254, 255}, MaxRawLen)
    \cup {<<254, 255>> \o Repeat(90, 255), <<254, 255>> \o Repeat(90, 254)}

\* decompress of bytes that came from elsewhere, held in place of compress's
\* output
DecompressRaw ==
  /\ call = "init"
  /\ \E buf \in RawBuffers :
       /\ compressed' = Ok(buf)
       /\ decompressed' = decompress(buf)
  /\ call' = "decompressRaw"
  /\ UNCHANGED <<gfCase, session, firmware, codebookCase, generatorCache, text, fecVars, pktVars, parseLoop>>

NextCompress == Compress \/ Decompress \/ DecompressRaw

SpecCompress == Init /\ [][NextCompress]_vars

(***************************************************************************)
(* State machine of the packet harness: createPacket then parsePacket of   *)
(* the packet made, or parsePacket of bytes that came from elsewhere       *)
(***************************************************************************)
MaxMsgLen == 2       \* longest message of the short cases

MsgUnits == {32, 116, 90, 233, 8364}

\* Payload lengths at the two limits: the largest that fits the packet and
\* the next, the largest that fits a 255-symbol codeword and the next.
BoundaryLens(fec) ==
  LET p == IF fec = "none" THEN 0 ELSE parityBytes(fec)
  IN {MAX_PACKET_SIZE - HEADER_SIZE - p, MAX_PACKET_SIZE - HEADER_SIZE - p + 1,
      255 - p, 256 - p}

Opt(c, f, fl) == [DefaultOptions EXCEPT !.compression = c, !.fec = f, !.flags = fl]

\* The createPacket calls made.
PacketInputs ==
  \* every short message, uncompressed and compressed, without FEC
  {<<m, Opt(c, "none", 0)>> : m \in SeqsUpTo(MsgUnits, MaxMsgLen), c \in {"none", "smaz"}}
  \* every compression, FEC level and flag nibble, and flags beyond 4 bits
  \cup {<<<<116, 104, 101>>, [Opt(c, f, fl) EXCEPT !.template = "ok"]>> :
          c \in DOMAIN COMP_MAP, f \in DOMAIN FEC_MAP, fl \in 0..15 \cup {16, 255}}
  \* option values outside the documented sets, names inherited from
  \* Object.prototype among them
  \cup {<<m, Opt(c, f, 0)>> :
          m \in {<<>>, <<90>>}, c \in {"smaz", "lz4", "toString"},
          f \in {"none", "low", "max", "toString", "constructor"}}
  \* the empty message at every FEC level
  \cup {<<<<>>, Opt(c, f, 0)>> : c \in {"none", "smaz"}, f \in LevelNames}
  \* one-character messages at every FEC level
  \cup {<<<<u>>, Opt(c, f, 0)>> : u \in MsgUnits, c \in {"none", "smaz"}, f \in LevelNames}
  \* codebook compression: a parameterised template, missing params, missing
  \* and unknown template
  \cup {<<<<90>>, [Opt("codebook", f, 0) EXCEPT !.template = t, !.params = ps]>> :
          f \in {"none", "low"}, t \in {"eta", NoTemplate, "nope"},
          ps \in {NoParams, [minutes |-> 7]}}
  \* payloads at the size limits: 'Z' uncompressed (one byte each), ' '
  \* compressed (one index byte each)
  \cup UNION {{<<Repeat(90, n), Opt("none", f, 0)>> : n \in BoundaryLens(f)}
                \cup {<<Repeat(32, n), Opt("smaz", f, 0)>> : n \in BoundaryLens(f)} :
              f \in DOMAIN FEC_MAP}

\* Bytes handed to parsePacket that createPacket did not make: nothing, less
\* than a header, and headers with each nibble in and out of range, followed
\* by no body, a one-byte body or sixteen zero bytes.
RawPackets ==
  {Missing, Given(<<>>), Given(<<16>>)}
    \cup {Given(<<b0, b1>> \o body) :
            b0 \in {16, 17, 18, 19, 31, 0, 32, 3, 241},
            b1 \in {0, 16, 32, 48, 64, 240, 15, 79},
            body \in {<<>>, <<12>>, Repeat(0, 16)}}

\* Changes made to the body of a packet of n bytes in transit: one byte at the
\* start of the body, one at the end, and as many as the level corrects.
BodyErrorPatterns(fec, n) ==
  LET t == maxCorrectableErrors(fec)
  IN {e \in {[start |-> HEADER_SIZE, k |-> 1, mask |-> 1],
             [start |-> n - 1, k |-> 1, mask |-> 255],
             [start |-> n - t, k |-> t, mask |-> 255]} :
        e.start >= HEADER_SIZE /\ e.start + e.k <= n}

CreatePacket ==
  /\ call = "init"
  /\ \E in \in PacketInputs :
       /\ pktMsg' = in[1]
       /\ pktOpts' = in[2]
       /\ created' = createPacket(generatorCache, in[1], in[2])
       /\ generatorCache' = createPacketCache(generatorCache, in[1], in[2])
  /\ pkt' = IF created'.ok THEN Given(created'.val.packet) ELSE Missing
  /\ call' = "createPacket"
  /\ UNCHANGED <<gfCase, session, firmware, codebookCase, pktErrs, parsed, fecVars, cmpVars, parseLoop>>

\* Transit of a FEC-protected packet of a message of at most one character:
\* body bytes change, header bytes never.
CorruptPacket ==
  /\ call = "createPacket"
  /\ created.ok
  /\ pktOpts.fec \in LevelNames
  /\ pktOpts.flags = 0
  /\ Len(pktMsg) <= 1
  /\ \E e \in BodyErrorPatterns(pktOpts.fec, Len(pkt.bytes)) :
       /\ pkt' = Given(Corrupted(pkt.bytes, e.start, e.k, 1, e.mask))
       /\ pktErrs' = e.start .. (e.start + e.k - 1)
  /\ call' = "corruptPacket"
  /\ UNCHANGED <<gfCase, session, firmware, codebookCase, generatorCache, pktMsg, pktOpts, created, parsed, fecVars, cmpVars, parseLoop>>

ParsePacket ==
  /\ call \in {"createPacket", "corruptPacket"}
  /\ created.ok
  /\ parsed' = parsePacket(pkt)
  /\ call' = "parsePacket"
  /\ UNCHANGED <<gfCase, session, firmware, codebookCase, generatorCache, pktMsg, pktOpts, created, pkt, pktErrs, fecVars, cmpVars, parseLoop>>

ParseRaw ==
  /\ call = "init"
  /\ \E raw \in RawPackets :
       /\ pkt' = raw
       /\ parsed' = parsePacket(raw)
  /\ call' = "parseRaw"
  /\ UNCHANGED <<gfCase, session, firmware, codebookCase, generatorCache, pktMsg, pktOpts, created, pktErrs, fecVars, cmpVars, parseLoop>>

NextPacket == CreatePacket \/ CorruptPacket \/ ParsePacket \/ ParseRaw

SpecPacket == Init /\ [][NextPacket]_vars

(***************************************************************************)
(* State machine of the field harness: gfMul then gfDiv by the same        *)
(* element, and gfInverse then gfMul with the inverse                      *)
(***************************************************************************)
FieldElements == 0..(GF_SIZE - 1)

GfMul ==
  /\ call = "init"
  /\ \E a \in FieldElements, b \in FieldElements :
       gfCase' = [NoGfCase EXCEPT !.a = a, !.b = b, !.product = gfMul(a, b)]
  /\ call' = "gfMul"
  /\ UNCHANGED <<generatorCache, fecVars, cmpVars, pktVars, session, firmware, codebookCase, parseLoop>>

\* gfDiv(product, b); with b = 0 it throws and nothing is returned
GfDiv ==
  /\ call = "gfMul"
  /\ gfCase.b # 0
  /\ gfCase' = [gfCase EXCEPT !.quotient = gfDiv(gfCase.product, gfCase.b)]
  /\ call' = "gfDiv"
  /\ UNCHANGED <<generatorCache, fecVars, cmpVars, pktVars, session, firmware, codebookCase, parseLoop>>

GfInverse ==
  /\ call = "init"
  /\ \E a \in FieldElements \ {0} :
       gfCase' = [NoGfCase EXCEPT !.a = a, !.inverse = gfInverse(a),
                                  !.unit = gfMul(a, gfInverse(a))]
  /\ call' = "gfInverse"
  /\ UNCHANGED <<generatorCache, fecVars, cmpVars, pktVars, session, firmware, codebookCase, parseLoop>>

MaxPower == 4        \* largest of the small exponents given to gfPow

\* The exponents given to gfPow: the small ones, and those around the order
\* 255 of the multiplicative group and around twice the order
GfPowers == 0..MaxPower \cup {254, 255, 256, 509, 510, 511}

GfPow ==
  /\ call = "init"
  /\ \E a \in FieldElements, n \in GfPowers :
       gfCase' = [NoGfCase EXCEPT !.a = a, !.power = n, !.raised = gfPow(a, n)]
  /\ call' = "gfPow"
  /\ UNCHANGED <<generatorCache, fecVars, cmpVars, pktVars, session, firmware, codebookCase, parseLoop>>

NextField == GfMul \/ GfDiv \/ GfInverse \/ GfPow

SpecField == Init /\ [][NextField]_vars

(***************************************************************************)
(* parsePacket step by step: the header checks and fec.decode in one step   *)
(* (their loops are for loops over the parity count and the block length),  *)
(* then one step per iteration of decompress's while loop, then the return  *)
(* or the throw.  The call runs to completion once begun: nothing else is   *)
(* scheduled while it runs.                                                 *)
(***************************************************************************)
\* The bytes given to parsePacket: those of RawPackets, smaz packets without
\* FEC around every buffer of RawBuffers and around two longer ones, and smaz
\* packets at level low whose block is a codeword around a short buffer.
LoopPackets ==
  RawPackets
    \cup {Given(<<17, 0>> \o b) :
            b \in RawBuffers \cup {<<254, 1, 65, 254, 2, 65>>, <<254, 0, 0, 254, 2, 255, 254, 65>>}}
    \cup {Given(<<17, 16>> \o fecEncode(EmptyCache, b, "low").val) :
            b \in {<<>>, <<254>>, <<254, 0>>, <<254, 1, 90, 0>>, <<0, 255>>}}

ParseBegin ==
  /\ call = "init"
  /\ \E raw \in LoopPackets :
       \E r \in {parsePacket(raw)} :
         /\ pkt' = raw
         /\ IF Len(r.ran) > 0 /\ r.ran[Len(r.ran)] = "decompress"
                 /\ COMP_REVERSE(decodeHeader(raw.bytes).compType) = "smaz"
              THEN /\ \E header \in {decodeHeader(raw.bytes)} :
                      \E payload \in {IF r.ran[1] = "fec"
                                        THEN fecDecode(Slice(raw.bytes, HEADER_SIZE, Len(raw.bytes)),
                                                       FEC_REVERSE(header.fecLevel)).val
                                        ELSE Slice(raw.bytes, HEADER_SIZE, Len(raw.bytes))} :
                        parseLoop' =
                          [buf |-> payload,
                           st |-> [ok |-> TRUE, parts |-> <<>>, pos |-> 0],
                           header |-> [version |-> header.version,
                                       compression |-> COMP_REVERSE(header.compType),
                                       fec |-> FEC_REVERSE(header.fecLevel),
                                       flags |-> header.flags],
                           stats |-> [packetSize |-> Len(raw.bytes),
                                      payloadSize |-> Len(payload),
                                      fecBytes |-> IF r.ran[1] = "fec"
                                                     THEN parityBytes(FEC_REVERSE(header.fecLevel))
                                                     ELSE 0,
                                      headerBytes |-> HEADER_SIZE],
                           ran |-> r.ran]
                   /\ parsed' = None
                   /\ call' = "parseBegin"
              ELSE /\ parsed' = r
                   /\ call' = "parseEnd"
                   /\ UNCHANGED parseLoop
  /\ UNCHANGED <<generatorCache, pktMsg, pktOpts, created, pktErrs, fecVars, cmpVars, gfCase, session, firmware, codebookCase>>

\* "while (pos < buf.length)": one iteration, or the exit from the loop and
\* the return of the result object, or the throw out of the loop
ParseIterate ==
  /\ call = "parseBegin"
  /\ IF parseLoop.st.ok /\ parseLoop.st.pos < Len(parseLoop.buf)
       THEN /\ parseLoop' = [parseLoop EXCEPT !.st = decompressStep(parseLoop.buf, parseLoop.st)]
            /\ UNCHANGED <<parsed, call>>
       ELSE /\ parsed' = IF parseLoop.st.ok
                           THEN [ok |-> TRUE,
                                 val |-> [message |-> parseLoop.st.parts,
                                          header |-> parseLoop.header,
                                          stats |-> parseLoop.stats],
                                 ran |-> parseLoop.ran]
                           ELSE [ok |-> FALSE, err |-> parseLoop.st.err, ran |-> parseLoop.ran]
            /\ call' = "parseEnd"
            /\ UNCHANGED parseLoop
  /\ UNCHANGED <<generatorCache, pktMsg, pktOpts, created, pkt, pktErrs, fecVars, cmpVars, gfCase, session, firmware, codebookCase>>

NextParseLoop == ParseBegin \/ ParseIterate

SpecParseLoop == Init /\ [][NextParseLoop]_vars /\ WF_vars(ParseIterate)

(***************************************************************************)
(* State machine of the codebook harness: codebook.encode of a template    *)
(* name, then codebook.decode of the bytes it returned                     *)
(***************************************************************************)
\* The names given to codebook.encode: every template without parameters,
\* a parameterised template, a name no template has and a name inherited
\* from Object.prototype.
CodebookNames ==
  {SimpleTemplates[k].name : k \in 1..Len(SimpleTemplates)} \cup {"eta", "nope", "toString"}

CodebookEncode ==
  /\ call = "init"
  /\ \E name \in CodebookNames, ps \in {NoParams, [minutes |-> 7]} :
       codebookCase' = [NoCodebookCase EXCEPT !.name = name, !.params = ps,
                                              !.encoded = codebookEncode(name, ps)]
  /\ call' = "codebook.encode"
  /\ UNCHANGED <<generatorCache, fecVars, cmpVars, pktVars, gfCase, session, firmware, parseLoop>>

CodebookDecode ==
  /\ call = "codebook.encode"
  /\ codebookCase.encoded.ok
  /\ codebookCase' = [codebookCase EXCEPT !.decoded = codebookDecode(codebookCase.encoded.val)]
  /\ call' = "codebook.decode"
  /\ UNCHANGED <<generatorCache, fecVars, cmpVars, pktVars, gfCase, session, firmware, parseLoop>>

NextCodebook == CodebookEncode \/ CodebookDecode

SpecCodebook == Init /\ [][NextCodebook]_vars

(***************************************************************************)
(* State machine of the firmware harness: meshxt_fec_encode, then          *)
(* meshxt_fec_decode of its unmodified output                              *)
(***************************************************************************)
FirmwareByteValues == {0, 1, 65, 255}

\* The buffers given to meshxt_fec_encode: every short buffer, a 24-byte
\* buffer as in the documented test, the longest that fits a 255-symbol
\* codeword and the shortest that does not.
FirmwareData(nsym) ==
  SeqsUpTo(FirmwareByteValues, MaxDataLen)
    \cup {Repeat(65, 24), Repeat(66, 255 - nsym), Repeat(66, 256 - nsym)}

FirmwareEncode ==
  /\ call = "init"
  /\ \E nsym \in MESHXT_FEC_LEVELS \cup {8} : \E d \in FirmwareData(nsym) :
       firmware' = [NoFirmwareCall EXCEPT !.data = d, !.nsym = nsym,
                                          !.encoded = meshxt_fec_encode(d, nsym)]
  /\ call' = "meshxt_fec_encode"
  /\ UNCHANGED <<generatorCache, fecVars, cmpVars, pktVars, gfCase, session, codebookCase, parseLoop>>

FirmwareDecode ==
  /\ call = "meshxt_fec_encode"
  /\ firmware.encoded.ret >= 0
  /\ firmware' = [firmware EXCEPT
                    !.decoded = meshxt_fec_decode(firmware.encoded.output, firmware.nsym)]
  /\ call' = "meshxt_fec_decode"
  /\ UNCHANGED <<generatorCache, fecVars, cmpVars, pktVars, gfCase, session, codebookCase, parseLoop>>

NextFirmware == FirmwareEncode \/ FirmwareDecode

SpecFirmware == Init /\ [][NextFirmware]_vars

(***************************************************************************)
(* State machine of a session: fec.encode, fec.decode, createPacket and    *)
(* parsePacket called in any order, any number of times, on one loaded     *)
(* module                                                                  *)
(***************************************************************************)
\* Arguments of fec.encode: a one-byte and a 240-byte message (too long at
\* every level); the three levels, an unknown level name and one inherited
\* from Object.prototype, this one with the empty message too.
SessionEncodeInputs ==
  {<<d, lv>> : d \in {<<65>>, Repeat(66, 240)}, lv \in LevelNames \cup {"max", "toString"}}
    \cup {<<<<>>, "toString">>}

\* Arguments of fec.decode: the all-zero codeword of 64 bytes and a block
\* shorter than the parity at every level, and at level low the all-zero
\* codeword of 17 bytes with its first byte changed.
SessionDecodeInputs ==
  {<<blk, lv>> : blk \in {Repeat(0, 64), <<1>>}, lv \in LevelNames}
    \cup {<<Put(Repeat(0, 17), 0, 1), "low">>}

\* Arguments of createPacket: packets that fit, one that fec.encode accepts
\* and the size check refuses, one that fec.encode refuses, and bad options.
SessionPacketInputs ==
  {<<<<90>>, Opt("smaz", f, 0)>> : f \in {"none", "low", "medium", "high", "max", "toString"}}
    \cup {<<<<>>, Opt("smaz", "constructor", 0)>>,
          <<<<90>>, Opt("lz4", "low", 0)>>,
          <<Repeat(90, 230), Opt("none", "low", 0)>>,
          <<Repeat(90, 250), Opt("none", "medium", 0)>>}

\* Arguments of parsePacket: an unprotected and a protected packet, a bad
\* header, a protected packet with a changed body byte.
SessionParseInputs ==
  {Given(<<16, 0, 90>>), Given(<<17, 16>> \o Repeat(0, 16)), Given(<<3, 64>>),
   Given(<<17, 16, 1>> \o Repeat(0, 15)), Missing}

SessionFecEncode ==
  /\ \E in \in SessionEncodeInputs :
       /\ generatorCache' = fecEncodeCache(generatorCache, in[1], in[2])
       /\ session' = [op |-> "fec.encode",
                      returned |-> fecEncode(generatorCache, in[1], in[2]).ok,
                      before |-> generatorCache]
  /\ call' = "session"
  /\ UNCHANGED <<fecVars, cmpVars, pktVars, gfCase, firmware, codebookCase, parseLoop>>

SessionFecDecode ==
  /\ \E in \in SessionDecodeInputs :
       session' = [op |-> "fec.decode",
                   returned |-> fecDecode(in[1], in[2]).ok,
                   before |-> generatorCache]
  /\ call' = "session"
  /\ UNCHANGED <<generatorCache, fecVars, cmpVars, pktVars, gfCase, firmware, codebookCase, parseLoop>>

SessionCreatePacket ==
  /\ \E in \in SessionPacketInputs :
       /\ generatorCache' = createPacketCache(generatorCache, in[1], in[2])
       /\ session' = [op |-> "createPacket",
                      returned |-> createPacket(generatorCache, in[1], in[2]).ok,
                      before |-> generatorCache]
  /\ call' = "session"
  /\ UNCHANGED <<fecVars, cmpVars, pktVars, gfCase, firmware, codebookCase, parseLoop>>

SessionParsePacket ==
  /\ \E in \in SessionParseInputs :
       session' = [op |-> "parsePacket",
                   returned |-> parsePacket(in).ok,
                   before |-> generatorCache]
  /\ call' = "session"
  /\ UNCHANGED <<generatorCache, fecVars, cmpVars, pktVars, gfCase, firmware, codebookCase, parseLoop>>

NextSession ==
  SessionFecEncode \/ SessionFecDecode \/ SessionCreatePacket \/ SessionParsePacket

SpecSession == Init /\ [][NextSession]_vars

(***************************************************************************)
(* Properties of the FEC codec, under SpecFec                              *)
(***************************************************************************)

\* C2: changing the bytes at 1 to maxCorrectableErrors(L) = floor(p/2)
\* distinct positions of fec.encode(m, L) and decoding the block returns m.
C2_BoundedCorrection ==
  (call = "fec.decode" /\ errs # {} /\ Cardinality(errs) <= maxCorrectableErrors(level))
    => decoded = Ok(data)

\* One changed byte, the first of the block of the one-byte message 'A' at
\* level low: fec.decode throws.
C2_FirstByteChanged ==
  /\ call = "fec.decode"
  /\ level = "low"
  /\ data = <<65>>
  /\ errs = {0}
  /\ block = Put(encoded.val, 0, 64)
  /\ decoded = Err("Correction failed: residual syndromes non-zero")

\* C4: fec.decode never returns wrong data after a correction attempt.  When
\* it returns a value for a block with a non-zero syndrome, the value is the
\* first n - p bytes of a corrected block whose p syndromes are all zero and
\* which differs from the received block in at most floor(p/2) positions; a
\* failed verification is a failed call.
C4_VerifiedCorrection ==
  (call = "fec.decode" /\ decoded.ok) =>
    LET p == parityBytes(level)
        n == Len(block)
    IN /\ Len(corrected) = n
       /\ decoded.val = SubSeq(corrected, 1, n - p)
       /\ \A i \in 0..(p - 1) : polyEval(corrected, gfExp[i + 1]) = 0
       /\ (\E i \in 0..(p - 1) : polyEval(block, gfExp[i + 1]) # 0)
            => Cardinality({i \in 1..n : corrected[i] # block[i]}) \in 1..(p \div 2)

\* A block with one changed byte that fec.decode corrected and returned
C4_Corrected ==
  /\ call = "fec.decode"
  /\ errs # {}
  /\ decoded.ok
  /\ corrected # block
  /\ corrected = encoded.val

\* C5: for every message m, the empty and the one-byte message included, and
\* every level L with len(m) + parityBytes(L) <= 255, fec.encode succeeds and
\* fec.decode(fec.encode(m, L), L) equals m.
C5_CleanRoundTrip ==
  /\ (call \in {"fec.encode", "corrupt", "fec.decode"} /\ Len(data) + parityBytes(level) <= 255)
       => encoded.ok
  /\ (call = "fec.decode" /\ errs = {}) => decoded = Ok(data)

\* The longest message of level high, encoded and decoded unchanged
C5_LongestDecoded ==
  /\ call = "fec.decode"
  /\ errs = {}
  /\ level = "high"
  /\ Len(data) = 191
  /\ decoded = Ok(data)

(***************************************************************************)
(* Properties of the compressor, under SpecCompress                        *)
(***************************************************************************)

\* C6: for every string, the empty string, one character, characters in no
\* dictionary entry and non-ASCII characters included,
\* decompress(compress(text)) equals text.
C6_CompressRoundTrip ==
  call = "decompress" => decompressed = Ok(text)

\* U+00E9 is compressed to the literal byte 0xE9 and comes back as U+FFFD.
C6_LatinOneLost ==
  /\ call = "decompress"
  /\ text = <<233>>
  /\ compressed = Ok(<<254, 1, 233>>)
  /\ decompressed = Ok(<<65533>>)

(***************************************************************************)
(* Properties of the packet framer, under SpecPacket                       *)
(***************************************************************************)

\* C1: for every text and every valid option combination for which
\* createPacket succeeds, parsePacket of the unmodified packet returns a
\* message equal to the text.
C1_PacketRoundTrip ==
  (call = "parsePacket" /\ pktErrs = {}) => (parsed.ok /\ parsed.val.message = pktMsg)

\* The message U+00E9 with smaz compression and no FEC comes back as U+FFFD.
C1_LatinOneLost ==
  /\ call = "parsePacket"
  /\ pktErrs = {}
  /\ pktMsg = <<233>>
  /\ pktOpts.compression = "smaz"
  /\ pktOpts.fec = "none"
  /\ pkt = Given(<<17, 0, 254, 1, 233>>)
  /\ parsed.ok
  /\ parsed.val.message = <<65533>>

\* C3: every packet createPacket returns is 2 header bytes, the compressed
\* payload and the parity, and at most 237 bytes long; when these would be
\* more than 237 bytes createPacket fails and returns no packet.
C3_PacketFits ==
  call \in {"createPacket", "corruptPacket", "parsePacket"} =>
    LET payload == CompressPayload(pktMsg, pktOpts)
        parity == IF pktOpts.fec \in LevelNames THEN parityBytes(pktOpts.fec) ELSE 0
    IN /\ created.ok =>
            /\ Len(created.val.packet) <= 237
            /\ Len(created.val.packet) = 2 + Len(payload.val) + parity
       /\ (payload.ok /\ 2 + Len(payload.val) + parity > 237) => ~created.ok

\* A returned packet of exactly 237 bytes
C3_FullPacket ==
  /\ call = "createPacket"
  /\ created.ok
  /\ Len(created.val.packet) = 237

\* C7: the first two bytes of every packet are (1 << 4) | compressionCode and
\* (fecCode << 4) | (flags & 0xF), with codes 0, 1, 2 for none, smaz,
\* codebook and 0, 1, 2, 3 for none, low, medium, high; the header bytes
\* 0x10 0x00 parse to version 1, compression code 0, FEC code 0, flags 0.
C7_HeaderLayout ==
  /\ (/\ call \in {"createPacket", "corruptPacket", "parsePacket"}
      /\ created.ok
      /\ pktOpts.compression \in {"none", "smaz", "codebook"}
      /\ pktOpts.fec \in {"none", "low", "medium", "high"}) =>
       /\ created.val.packet[1]
            = 16 + [none |-> 0, smaz |-> 1, codebook |-> 2][pktOpts.compression]
       /\ created.val.packet[2]
            = 16 * [none |-> 0, low |-> 1, medium |-> 2, high |-> 3][pktOpts.fec]
                + (pktOpts.flags % 16)
  /\ decodeHeader(<<16, 0>>) = [version |-> 1, compType |-> 0, fecLevel |-> 0, flags |-> 0]
  /\ (call = "parseRaw" /\ pkt = Given(<<16, 0>>)) =>
       /\ parsed.ok
       /\ parsed.val.header = [version |-> 1, compression |-> "none", fec |-> "none", flags |-> 0]

\* A codebook packet at level high with flags 255: header bytes 0x12 0x3F
C7_CodebookHighHeader ==
  /\ call = "createPacket"
  /\ pktOpts.compression = "codebook"
  /\ pktOpts.fec = "high"
  /\ pktOpts.flags = 255
  /\ created.ok
  /\ SubSeq(created.val.packet, 1, 2) = <<18, 63>>

C9_AlwaysPacketTooLarge ==
  call \in {"createPacket", "corruptPacket", "parsePacket"} =>
    LET payload == CompressPayload(pktMsg, pktOpts)
        parity == IF pktOpts.fec \in LevelNames THEN parityBytes(pktOpts.fec) ELSE 0
    IN (payload.ok /\ 2 + Len(payload.val) + parity > 237)
         => created = Err("Packet too large")

\* C9 amended: whenever 2 + len(compressed payload) + parityBytes(fec)
\* exceeds 237, createPacket fails: with the packet-too-large error of the
\* size check when fec is none or len(payload) + parityBytes(fec) <= 255,
\* and with fec.encode's data-too-long error, raised before the packet is
\* assembled, when fec is not none and len(payload) + parityBytes(fec) > 255.
C9_TooLargeOrTooLong ==
  call \in {"createPacket", "corruptPacket", "parsePacket"} =>
    LET payload == CompressPayload(pktMsg, pktOpts)
        parity == IF pktOpts.fec \in LevelNames THEN parityBytes(pktOpts.fec) ELSE 0
    IN (payload.ok /\ 2 + Len(payload.val) + parity > 237)
         => created = IF pktOpts.fec \notin LevelNames \/ Len(payload.val) + parity <= 255
                        THEN Err("Packet too large")
                        ELSE Err("Data too long")

\* 240 uncompressed bytes at level low: fec.encode refuses 256 symbols
C9_FecRefuses ==
  /\ call = "createPacket"
  /\ pktOpts.compression = "none"
  /\ pktOpts.fec = "low"
  /\ Len(pktMsg) = 240
  /\ created = Err("Data too long")

\* C10: parsePacket fails, with no FEC decoding and no decompression
\* attempted, when the packet is missing or shorter than 2 bytes, when the
\* version nibble is not 1, when the compression code is not 0, 1 or 2, and
\* when the FEC code is not 0, 1, 2 or 3; the failure reported is the first
\* of these in this order.
C10_HeaderFailures ==
  call \in {"parseRaw", "parsePacket"} =>
    LET b == pkt.bytes
        failsWith(e) == ~parsed.ok /\ parsed.err = e /\ parsed.ran = <<>>
    IN IF ~pkt.given \/ Len(b) < 2 THEN failsWith("Packet too small")
       ELSE IF b[1] \div 16 # 1 THEN failsWith("Unsupported packet version")
       ELSE IF b[1] % 16 \notin {0, 1, 2} THEN failsWith("Unknown compression type")
       ELSE IF b[2] \div 16 \notin {0, 1, 2, 3} THEN failsWith("Unknown FEC level")
       ELSE parsed.ok \/ parsed.ran # <<>>

\* Version 0, compression code 3 and FEC code 4 at once: the version is reported
C10_VersionFirst ==
  /\ call = "parseRaw"
  /\ pkt = Given(<<3, 64>>)
  /\ ~parsed.ok
  /\ parsed.err = "Unsupported packet version"

\* C11 as stated: createPacket rejects an empty message (zero-length text)
\* with a validation error instead of producing a packet.
C11_EmptyMessageRejected ==
  (call \in {"createPacket", "corruptPacket", "parsePacket"} /\ pktMsg = <<>>)
    => ~created.ok

\* C11 amended: createPacket accepts an empty message.  With compression none
\* or smaz and a fec of none, low, medium or high the payload is empty and the packet is the 2 header bytes followed
\* by the parity of the empty message, parityBytes(fec) zero bytes, when fec
\* is not none; parsePacket of the unmodified packet returns the empty
\* message.
C11_EmptyMessageAccepted ==
  (/\ call \in {"createPacket", "corruptPacket", "parsePacket"}
   /\ pktMsg = <<>>
   /\ pktOpts.compression \in {"none", "smaz"}
   /\ pktOpts.fec \in {"none", "low", "medium", "high"}) =>
    LET parity == IF pktOpts.fec = "none" THEN 0 ELSE parityBytes(pktOpts.fec)
    IN /\ created.ok
       /\ created.val.packet = SubSeq(created.val.packet, 1, 2) \o Repeat(0, parity)
       /\ created.val.stats.compressedSize = 0
       /\ (call = "parsePacket" /\ pktErrs = {})
            => (parsed.ok /\ parsed.val.message = <<>>)

\* The empty message, smaz, level low: 18 bytes, parsed back to the empty message
C11_EmptyProtected ==
  /\ call = "parsePacket"
  /\ pktErrs = {}
  /\ pktMsg = <<>>
  /\ pktOpts.compression = "smaz"
  /\ pkt = Given(<<17, 16>> \o Repeat(0, 16))
  /\ parsed.ok
  /\ parsed.val.message = <<>>

\* C12: createPacket fails and produces no packet when options.compression
\* is not one of none, smaz, codebook, when options.fec is not one of none,
\* low, medium, high, or when compression is codebook and the template, or
\* the params a parameterised template requires, is missing; a bad option
\* value is reported by the option checks, before any compression or FEC
\* work, so the generator cache is as it was.
C12_BadOptionsRejected ==
  call \in {"createPacket", "corruptPacket", "parsePacket"} =>
    LET badCompression == pktOpts.compression \notin {"none", "smaz", "codebook"}
        badFec == pktOpts.fec \notin {"none", "low", "medium", "high"}
        noTemplate == pktOpts.compression = "codebook" /\ pktOpts.template = NoTemplate
        noParams == /\ pktOpts.compression = "codebook"
                    /\ pktOpts.template = "eta"
                    /\ pktOpts.params = NoParams
    IN /\ (badCompression \/ badFec \/ noTemplate \/ noParams) => (~created.ok /\ ~pkt.given)
       /\ badCompression => created = Err("Unknown compression")
       /\ (badFec /\ ~badCompression) => created = Err("Unknown FEC level")
       /\ (badCompression \/ badFec) => generatorCache = EmptyCache

\* createPacket('', {compression: 'smaz', fec: 'toString'}) returns the
\* packet 11 00, and the generator cache has an entry under the function's
\* string form.
C12_InheritedFecAccepted ==
  /\ call = "createPacket"
  /\ pktMsg = <<>>
  /\ pktOpts.compression = "smaz"
  /\ pktOpts.fec = "toString"
  /\ created.ok
  /\ created.val.packet = <<17, 0>>
  /\ generatorCache[MemberString("toString")] = <<1>>

(***************************************************************************)
(* Further properties of the FEC codec, under SpecFec                      *)
(***************************************************************************)

\* C13: fec.encode(m, L) returns m unchanged followed by exactly
\* parityBytes(L) parity bytes, so its length is len(m) + parityBytes(L);
\* parityBytes is 16, 32, 64 and maxCorrectableErrors is 8, 16, 32 for low,
\* medium, high.
C13_SystematicEncoding ==
  /\ \A lv \in {"low", "medium", "high"} :
       /\ parityBytes(lv) = [low |-> 16, medium |-> 32, high |-> 64][lv]
       /\ maxCorrectableErrors(lv) = [low |-> 8, medium |-> 16, high |-> 32][lv]
  /\ (call \in {"fec.encode", "corrupt", "fec.decode"} /\ encoded.ok) =>
       /\ Len(encoded.val) = Len(data) + [low |-> 16, medium |-> 32, high |-> 64][level]
       /\ SubSeq(encoded.val, 1, Len(data)) = data

\* The 100-byte message at level medium: 132 bytes, the message first
C13_Hundred ==
  /\ call = "fec.encode"
  /\ level = "medium"
  /\ Len(data) = 100
  /\ encoded.ok
  /\ Len(encoded.val) = 132
  /\ SubSeq(encoded.val, 1, 100) = data
  /\ SubSeq(encoded.val, 101, 132) # Repeat(0, 32)

\* C14: fec.encode fails with the too-large error exactly when
\* len(m) + parityBytes(L) > 255 and succeeds whenever the sum is at most 255
\* (a 255-symbol codeword is accepted); a failing call returns no output.
C14_EncodeLimit ==
  call \in {"fec.encode", "corrupt", "fec.decode"} =>
    LET p == [low |-> 16, medium |-> 32, high |-> 64][level]
    IN /\ Len(data) + p > 255 => (encoded = Err("Data too long") /\ block = <<>>)
       /\ Len(data) + p <= 255 => (encoded.ok /\ Len(encoded.val) = Len(data) + p)

\* 239 bytes at level low: a codeword of exactly 255 symbols is returned
C14_FullCodeword ==
  /\ call = "fec.encode"
  /\ level = "low"
  /\ Len(data) = 239
  /\ encoded.ok
  /\ Len(encoded.val) = 255

(***************************************************************************)
(* Further properties of the compressor, under SpecCompress                *)
(***************************************************************************)

\* C15: the dictionary has 254 entries, and for every entry s compress(s) is
\* exactly one byte in 0x00..0xFD, no literal escape, and decompress of that
\* one byte returns exactly s.
C15_EntryIsOneToken ==
  /\ Len(CODEBOOK) = 254
  /\ (call \in {"compress", "decompress"} /\ \E k \in 1..254 : CODEBOOK[k] = text) =>
       /\ compressed.ok
       /\ Len(compressed.val) = 1
       /\ compressed.val[1] \in 0..253
       /\ call = "decompress" => decompressed = Ok(text)

\* 'ple', listed at 0x93 and again at 0xA2: compressed to the byte 0xA2 and back
C15_ListedTwice ==
  /\ call = "decompress"
  /\ text = <<112, 108, 101>>
  /\ CODEBOOK[147 + 1] = text
  /\ CODEBOOK[162 + 1] = text
  /\ compressed = Ok(<<162>>)
  /\ decompressed = Ok(text)

(***************************************************************************)
(* Properties of the field arithmetic, under SpecField                     *)
(***************************************************************************)

\* C16: for all field elements a and b in 1..255, gfDiv(gfMul(a, b), b) = a
\* and gfMul(a, gfInverse(a)) = 1, with the exp/log tables built from the
\* primitive polynomial 0x11D (alpha^8 = 0x1D).
C16_FieldInverses ==
  /\ PRIM_POLY = 285
  /\ gfExp[8 + 1] = 29
  /\ (call = "gfDiv" /\ gfCase.a \in 1..255 /\ gfCase.b \in 1..255)
       => gfCase.quotient = gfCase.a
  /\ call = "gfInverse" => (gfCase.a \in 1..255 /\ gfCase.unit = 1)

\* 0x02 times 0x80 is 0x1D, the reduction by 0x11D, and 0x1D over 0x80 is 0x02
C16_ReducedProduct ==
  /\ call = "gfDiv"
  /\ gfCase.a = 2
  /\ gfCase.b = 128
  /\ gfCase.product = 29
  /\ gfCase.quotient = 2

(***************************************************************************)
(* Properties of the generator cache, under SpecSession                    *)
(***************************************************************************)

\* C17 as stated: after any sequence of fec.encode, fec.decode, createPacket
\* and parsePacket calls, every populated generator-cache entry for parity
\* count p is the monic polynomial of degree p with the roots alpha^0 ..
\* alpha^(p-1), an entry is never modified once populated, and a failing call
\* leaves the generator cache exactly as it was before the call.
C17_FailureLeavesCache ==
  /\ \A p \in {16, 32, 64} :
       generatorCache[CacheKey(p)] # Absent =>
         /\ Len(generatorCache[CacheKey(p)]) = p + 1
         /\ generatorCache[CacheKey(p)][1] = 1
         /\ \A i \in 0..(p - 1) : polyEval(generatorCache[CacheKey(p)], gfExp[i + 1]) = 0
  /\ \A k \in DOMAIN generatorCache :
       session.before[k] # Absent => generatorCache[k] = session.before[k]
  /\ ~session.returned => generatorCache = session.before

\* C17 amended: after any sequence of fec.encode, fec.decode, createPacket
\* and parsePacket calls, every populated generator-cache entry for parity
\* count p is the monic polynomial of degree p with the roots alpha^0 ..
\* alpha^(p-1), and no call, returning or failing, modifies or removes a
\* populated entry.  A failing fec.decode or parsePacket leaves the cache as
\* it was; a failing fec.encode or createPacket may have populated an entry
\* that was absent: createPacket runs fec.encode, which builds the generator,
\* before its size check.
C17_EntriesNeverChange ==
  /\ \A p \in {16, 32, 64} :
       generatorCache[CacheKey(p)] # Absent =>
         /\ Len(generatorCache[CacheKey(p)]) = p + 1
         /\ generatorCache[CacheKey(p)][1] = 1
         /\ \A i \in 0..(p - 1) : polyEval(generatorCache[CacheKey(p)], gfExp[i + 1]) = 0
  /\ \A k \in DOMAIN generatorCache :
       session.before[k] # Absent => generatorCache[k] = session.before[k]
  /\ (~session.returned /\ session.op \in {"fec.decode", "parsePacket"})
       => generatorCache = session.before

\* createPacket failed and the generator of 16 parity bytes, absent before
\* the call, is in the cache after it
C17_FailedCallFilledCache ==
  /\ session.op = "createPacket"
  /\ ~session.returned
  /\ session.before[CacheKey(16)] = Absent
  /\ Len(generatorCache[CacheKey(16)]) = 17
  /\ \A k \in DOMAIN generatorCache \ {CacheKey(16)} : generatorCache[k] = session.before[k]

(***************************************************************************)
(* Properties of the syndromes, under SpecFec                              *)
(***************************************************************************)

\* C18 as stated: for a block obtained from fec.encode(m, L) by changing the
\* values of zero or more byte positions, all p syndromes computed by
\* rsCalcSyndromes are zero if and only if no position was changed; hence
\* fec.decode takes the strip-parity-only path only for uncorrupted blocks.
C18_ZeroIffUnchanged ==
  /\ (call \in {"fec.encode", "corrupt", "fec.decode"} /\ encoded.ok) =>
       (AllZero(rsCalcSyndromes(block, parityBytes(level))) <=> errs = {})
  /\ (call = "fec.decode" /\ decoded.ok /\ corrected = block) => errs = {}

\* C18 amended: for a block obtained from fec.encode(m, L) by changing the
\* values of at most p = parityBytes(L) byte positions, all p syndromes are
\* zero if and only if no position was changed; fec.decode takes the
\* strip-parity-only path only for an unchanged block or one with more than p
\* changed positions.
C18_ZeroIffUnchangedUpToParity ==
  /\ (/\ call \in {"fec.encode", "corrupt", "fec.decode"}
      /\ encoded.ok
      /\ Cardinality(errs) <= parityBytes(level)) =>
       (AllZero(rsCalcSyndromes(block, parityBytes(level))) <=> errs = {})
  /\ (call = "fec.decode" /\ decoded.ok /\ corrected = block) =>
       (errs = {} \/ Cardinality(errs) > parityBytes(level))

\* All 16 parity bytes of a block of level low changed: a syndrome is not
\* zero and fec.decode does not return
C18_SixteenChanged ==
  /\ call = "fec.decode"
  /\ level = "low"
  /\ Cardinality(errs) = 16
  /\ ~AllZero(rsCalcSyndromes(block, 16))
  /\ ~decoded.ok

(***************************************************************************)
(* Properties of the C firmware FEC, under SpecFirmware                    *)
(***************************************************************************)

\* C19: in the C firmware, for every data buffer and nsym in {16, 32, 64}
\* with dataLen + nsym <= 255, meshxt_fec_decode applied to the unmodified
\* output of meshxt_fec_encode returns dataLen and the original data: every
\* codeword the firmware encoder produces has all-zero syndromes under the
\* firmware syndrome computation.
C19_FirmwareCleanRoundTrip ==
  /\ (/\ call \in {"meshxt_fec_encode", "meshxt_fec_decode"}
      /\ firmware.nsym \in {16, 32, 64}
      /\ Len(firmware.data) + firmware.nsym <= 255) =>
       /\ firmware.encoded.ret = Len(firmware.data) + firmware.nsym
       /\ rs_check(rs_syndromes(firmware.encoded.output, firmware.nsym), firmware.nsym)
  /\ call = "meshxt_fec_decode" =>
       firmware.decoded = [ret |-> Len(firmware.data), output |-> firmware.data]

\* The one-byte buffer 0x41 with 16 parity bytes: encoded to 17 bytes whose
\* first syndrome is not zero, and meshxt_fec_decode returns -1
C19_OneByteRejected ==
  /\ call = "meshxt_fec_decode"
  /\ firmware.data = <<65>>
  /\ firmware.nsym = 16
  /\ firmware.encoded.ret = 17
  /\ rs_syndromes(firmware.encoded.output, 16)[1] # 0
  /\ firmware.decoded.ret = -1

\* C20: for every template without parameters (ids 0x00..0x3F),
\* codebook.encode(name) is exactly one byte equal to the template's id, and
\* codebook.decode of that byte returns the template's name and its text;
\* no two defineSimple / defineParam calls share a name or an id, so no
\* template shadows another.
C20_SimpleTemplateRoundTrip ==
  /\ \A k \in 1..Len(SimpleTemplates) :
       /\ SimpleTemplates[k].id = k - 1
       /\ ~SimpleTemplates[k].hasParams
  /\ Len(SimpleTemplates) = 64
  /\ LET keys == [k \in 1..Len(SimpleTemplates) |->
                    [id |-> SimpleTemplates[k].id, name |-> SimpleTemplates[k].name]]
                   \o ParamTemplateKeys
     IN \A i, j \in 1..Len(keys) :
          i # j => keys[i].id # keys[j].id /\ keys[i].name # keys[j].name
  /\ \A k \in 1..Len(SimpleTemplates) :
       codebookCase.name = SimpleTemplates[k].name =>
         /\ call \in {"codebook.encode", "codebook.decode"} =>
              codebookCase.encoded = Ok(<<SimpleTemplates[k].id>>)
         /\ call = "codebook.decode" =>
              /\ codebookCase.decoded.ok
              /\ codebookCase.decoded.val.template = SimpleTemplates[k].name
              /\ codebookCase.decoded.val.text = SimpleTemplates[k].text
              /\ codebookCase.decoded.val.params = NoParams

\* The last template without parameters: 'listen' encodes to the byte 0x3F,
\* which decodes to the name 'listen' and the text 'Listen'.
C20_ListenDecoded ==
  /\ call = "codebook.decode"
  /\ codebookCase.name = "listen"
  /\ codebookCase.encoded = Ok(<<63>>)
  /\ codebookCase.decoded.ok
  /\ codebookCase.decoded.val.template = "listen"
  /\ codebookCase.decoded.val.text = <<76, 105, 115, 116, 101, 110>>

\* C21: for every codeword from fec.encode whose bytes were changed at a set
\* E of 1 to floor(p/2) distinct offsets, rsFindErrorLocator returns a
\* locator polynomial of degree |E| (|E| + 1 coefficients, the leading one
\* not zero) and rsFindErrors returns exactly the offsets in E, each once,
\* offset 0 being the first message byte and n - 1 the last parity byte.
C21_ErrorsLocated ==
  (/\ call = "corrupt"
   /\ errs # {}
   /\ Cardinality(errs) <= maxCorrectableErrors(level))
    => \E errLoc \in {rsFindErrorLocator(rsCalcSyndromes(block, parityBytes(level)),
                                          parityBytes(level))} :
         /\ errLoc.ok
         /\ Len(errLoc.val) = Cardinality(errs) + 1
         /\ errLoc.val[1] # 0
         /\ \E errPos \in {rsFindErrors(errLoc.val, Len(block))} :
              /\ errPos.ok
              /\ Len(errPos.val) = Cardinality(errs)
              /\ {errPos.val[k] : k \in 1..Len(errPos.val)} = errs

\* Eight bytes of the block of the 20-byte message changed at offsets 1, 4,
\* ..., 22 at level low: the Chien search returns these eight offsets.
C21_EightApartLocated ==
  /\ call = "corrupt"
  /\ level = "low"
  /\ Len(data) = 20
  /\ errs = {1, 4, 7, 10, 13, 16, 19, 22}
  /\ rsFindErrors(rsFindErrorLocator(rsCalcSyndromes(block, 16), 16).val, 36)
       = Ok(<<22, 19, 16, 13, 10, 7, 4, 1>>)

\* C22: given a received block, its syndromes and the exact set E
\* (1 <= |E| <= floor(p/2)) of changed offsets, rsCorrectErrors returns the
\* originally encoded codeword: every offset in E gets back its original
\* byte and no offset outside E is changed.
C22_ForneyRestoresCodeword ==
  (/\ call = "corrupt"
   /\ errs # {}
   /\ Cardinality(errs) <= maxCorrectableErrors(level))
    => \E synd \in {rsCalcSyndromes(block, parityBytes(level))} :
         \E errPos \in {rsFindErrors(rsFindErrorLocator(synd, parityBytes(level)).val,
                                      Len(block))} :
           /\ {errPos.val[k] : k \in 1..Len(errPos.val)} = errs
           /\ rsCorrectErrors(block, synd, errPos.val) = Ok(encoded.val)

\* The block of the one-byte message 'A' at level low with its first byte
\* changed from 0x41 to 0x40: given offset 0, rsCorrectErrors XORs 0x16 into
\* it, not 0x01, and returns a block starting with 0x56.
C22_WrongMagnitude ==
  /\ call = "corrupt"
  /\ level = "low"
  /\ data = <<65>>
  /\ errs = {0}
  /\ block = Put(encoded.val, 0, 64)
  /\ rsFindErrors(rsFindErrorLocator(rsCalcSyndromes(block, 16), 16).val, 17) = Ok(<<0>>)
  /\ rsCorrectErrors(block, rsCalcSyndromes(block, 16), <<0>>) = Ok(Put(encoded.val, 0, 86))

\* C23: when fec.decode is given a codeword from fec.encode(m, L) with at
\* most floor(parityBytes(L)/2) changed byte positions, it either returns
\* exactly m or fails with an error; it never returns other bytes.
C23_RightOrNothing ==
  (/\ call = "fec.decode"
   /\ Cardinality(errs) <= maxCorrectableErrors(level))
    => /\ decoded # None
       /\ decoded.ok => decoded.val = data

\* Sixteen bytes, two apart, of the block of the 100-byte message changed at
\* level medium: fec.decode fails and returns nothing.
C23_SixteenApartRefused ==
  /\ call = "fec.decode"
  /\ level = "medium"
  /\ Len(data) = 100
  /\ errs = {2 * k : k \in 0..15}
  /\ ~decoded.ok
  /\ decoded # None

\* C24: when the longest dictionary match at a position is a string held by
\* more than one dictionary entry (indices 0x93 and 0xA2 both hold 'ple';
\* 0x4C and 0x65 both hold ' her'), compress emits the lowest of those
\* indices, the entry registered first.  The texts are such an entry alone
\* and such an entry between two 'Z'.
C24_TieToLowestIndex ==
  call \in {"compress", "decompress"} =>
    \A between \in BOOLEAN :
      LET same == {j \in 1..Len(CODEBOOK) :
                     text = IF between THEN <<90>> \o CODEBOOK[j] \o <<90>> ELSE CODEBOOK[j]}
          lowest == (CHOOSE j \in same : \A x \in same : j <= x) - 1
      IN Cardinality(same) > 1 =>
           compressed = Ok(IF between THEN <<254, 1, 90, lowest, 254, 1, 90>> ELSE <<lowest>>)

\* C24 as the code has it: when the longest dictionary match at a position
\* is a string held by more than one dictionary entry, compress emits the
\* highest of those indices, the entry registered last (0xA2 for 'ple',
\* 0x65 for ' her').
C24_TieToHighestIndex ==
  call \in {"compress", "decompress"} =>
    \A between \in BOOLEAN :
      LET same == {j \in 1..Len(CODEBOOK) :
                     text = IF between THEN <<90>> \o CODEBOOK[j] \o <<90>> ELSE CODEBOOK[j]}
          highest == Max(same) - 1
      IN Cardinality(same) > 1 =>
           compressed = Ok(IF between THEN <<254, 1, 90, highest, 254, 1, 90>> ELSE <<highest>>)

\* 'ZpleZ': the match 'ple' inside the text is emitted as 0xA2, not 0x93
C24_SecondPleEmitted ==
  /\ call = "compress"
  /\ text = <<90, 112, 108, 101, 90>>
  /\ compressed = Ok(<<254, 1, 90, 162, 254, 1, 90>>)

\* C25: every character that matches no dictionary entry is emitted inside a
\* literal run as the bytes of its UTF-8 encoding (one byte for
\* U+0000..U+007F, two for U+0080..U+07FF, three for the other BMP
\* characters, four for characters outside the BMP), so the literal bytes of
\* a run are the UTF-8 encoding of the original characters.  The texts are
\* those made of 'Z', U+00E9, U+20AC and U+1F600 only, none of which is part
\* of a dictionary entry, whose encoding fits one escape.
C25_LiteralsAreUtf8 ==
  (/\ call \in {"compress", "decompress"}
   /\ text # <<>>
   /\ \A i \in 1..Len(text) :
        /\ text[i] \in {90, 233, 8364, 55357, 56832}
        /\ text[i] = 55357 => (i < Len(text) /\ text[i + 1] = 56832)
        /\ text[i] = 56832 => (i > 1 /\ text[i - 1] = 55357)
   /\ Len(Utf8Encode(text)) <= 255)
    => compressed = Ok(<<LITERAL_MARKER, Len(Utf8Encode(text))>> \o Utf8Encode(text))

\* U+1F600, whose UTF-8 encoding is F0 9F 98 80, is emitted as the six
\* literal bytes EF BF BD EF BF BD: each of its two code units is encoded on
\* its own.
C25_AstralSplit ==
  /\ call = "compress"
  /\ text = <<55357, 56832>>
  /\ Utf8Encode(text) = <<240, 159, 152, 128>>
  /\ compressed = Ok(<<254, 6, 239, 191, 189, 239, 191, 189>>)

\* C26: in every output of compress, each literal escape is the byte 0xFE, a
\* length byte in 1..255 and exactly that many raw bytes; a pending literal
\* run longer than 255 bytes is emitted as consecutive escapes of 255 bytes
\* followed by one escape for the remainder (an escape followed at once by
\* another escape holds 255 bytes); pending literals are emitted before the
\* next dictionary index byte and at the end of the input, so the tokens are
\* in input order: the raw bytes and the entries' characters, in the order of
\* the output, are the bytes pushed for the input's characters in the order
\* of the input.  No escape has length zero and no token is the byte 0xFF.
C26_LiteralEscapes ==
  call \in {"compress", "decompress"} =>
    LET out == compressed.val
        n == Len(out)
        bad == [ok |-> FALSE, pos |-> 0, bytes |-> <<>>]
        \* one token read at offset st.pos after the tokens before it
        token(st) ==
          IF out[st.pos + 1] = 255 THEN bad
          ELSE IF out[st.pos + 1] = 254
            THEN IF st.pos + 1 >= n THEN bad
                 ELSE LET len == out[st.pos + 2]
                          next == st.pos + 2 + len
                      IN IF len = 0 \/ next > n THEN bad
                         ELSE IF next < n /\ out[next + 1] = 254 /\ len # 255 THEN bad
                         ELSE [ok |-> TRUE, pos |-> next,
                               bytes |-> st.bytes \o SubSeq(out, st.pos + 3, next)]
          ELSE IF out[st.pos + 1] >= Len(CODEBOOK) THEN bad
          ELSE [ok |-> TRUE, pos |-> st.pos + 1,
                bytes |-> st.bytes \o CODEBOOK[out[st.pos + 1] + 1]]
        \* all tokens: well formed, and the bytes they stand for
        tokens ==
          Loop(LAMBDA k, st : IF ~st.ok \/ st.pos >= n THEN st ELSE token(st),
               1, n, [ok |-> TRUE, pos |-> 0, bytes |-> <<>>])
        \* the bytes pushed for the characters of the input, in its order
        pushed ==
          Loop(LAMBDA i, bytes :
                 bytes \o (IF text[i] > 255 THEN Utf8Encode(<<text[i]>>) ELSE <<text[i]>>),
               1, Len(text), <<>>)
    IN /\ compressed.ok
       /\ tokens.ok
       /\ tokens.pos = n
       /\ tokens.bytes = pushed

\* 256 unmatched characters: an escape of 255 bytes followed by an escape of
\* one byte
C26_RunSplit ==
  /\ call = "compress"
  /\ text = Repeat(90, 256)
  /\ compressed = Ok(<<254, 255>> \o Repeat(90, 255) \o <<254, 1, 90>>)

\* C27: decompress fails and returns no text when it meets the byte 0xFF in
\* token position, the escape byte 0xFE as the last byte of the buffer, or an
\* escape whose length byte exceeds the number of bytes remaining; every
\* other byte in token position (0x00..0xFD) is replaced by the dictionary
\* string with that index (never an invalid index), a complete literal run
\* by its bytes read as UTF-8, and no read goes past the end of the buffer.
C27_DecompressFailures ==
  call = "decompressRaw" =>
    LET buf == compressed.val
        n == Len(buf)
        failed == [failed |-> TRUE, pos |-> 0, parts |-> <<>>]
        token(st) ==
          IF buf[st.pos + 1] = 255 THEN failed
          ELSE IF buf[st.pos + 1] = 254
            THEN IF st.pos + 1 = n THEN failed
                 ELSE IF buf[st.pos + 2] > n - (st.pos + 2) THEN failed
                 ELSE [failed |-> FALSE, pos |-> st.pos + 2 + buf[st.pos + 2],
                       parts |-> st.parts
                                   \o Utf8Decode(SubSeq(buf, st.pos + 3,
                                                        st.pos + 2 + buf[st.pos + 2]))]
          ELSE [failed |-> FALSE, pos |-> st.pos + 1,
                parts |-> st.parts \o CODEBOOK[buf[st.pos + 1] + 1]]
        read ==
          Loop(LAMBDA k, st : IF st.failed \/ st.pos >= n THEN st ELSE token(st),
               1, n, [failed |-> FALSE, pos |-> 0, parts |-> <<>>])
    IN /\ decompressed # None
       /\ decompressed.ok = ~read.failed
       /\ decompressed.ok => decompressed.val = read.parts /\ read.pos = n
       /\ ~decompressed.ok =>
            decompressed.err \in {"Reserved byte 0xFF encountered",
                                  "Truncated literal marker", "Truncated literal data"}

\* An escape of 255 bytes with 254 bytes behind it: decompress fails
C27_RunCutShort ==
  /\ call = "decompressRaw"
  /\ compressed = Ok(<<254, 255>> \o Repeat(90, 254))
  /\ decompressed = Err("Truncated literal data")

\* C28: gfPow(a, n) equals the n-fold GF(2^8) product of a with itself for
\* every a in 0..255 and every integer n >= 0: gfPow(a, 0) = 1,
\* gfPow(a, n + 1) = gfMul(gfPow(a, n), a), in particular gfPow(0, n) = 0 for
\* n >= 1.
C28_PowerIsRepeatedProduct ==
  call = "gfPow" =>
    /\ gfCase.raised = Loop(LAMBDA k, acc : gfMul(acc, gfCase.a), 1, gfCase.power, 1)
    /\ gfCase.power = 0 => gfCase.raised = 1
    /\ gfPow(gfCase.a, gfCase.power + 1) = gfMul(gfCase.raised, gfCase.a)
    /\ (gfCase.a = 0 /\ gfCase.power >= 1) => gfCase.raised = 0

\* gfPow(0, 1) is 1: gfLog[0] is an unset table cell read as 0, the log of 1
C28_ZeroRaisedToOne ==
  /\ call = "gfPow"
  /\ gfCase.a = 0
  /\ gfCase.power = 1
  /\ gfCase.raised = 1
  /\ gfMul(gfPow(0, 0), 0) = 0

\* C29: the C firmware port and the JavaScript codec produce byte-identical
\* Reed-Solomon codewords: for the same data and the same parity count nsym
\* in {16, 32, 64}, the nsym parity bytes written by meshxt_fec_encode equal
\* the parity bytes appended by fec.encode, so a block encoded by one
\* implementation has all-zero syndromes in the other.
C29_SameCodewords ==
  (/\ call \in {"meshxt_fec_encode", "meshxt_fec_decode"}
   /\ firmware.nsym \in {16, 32, 64}
   /\ Len(firmware.data) + firmware.nsym <= 255) =>
    /\ firmware.encoded.output
         = firmware.data \o rsEncodeMsg(EmptyCache, firmware.data, firmware.nsym)
    /\ AllZero(rsCalcSyndromes(firmware.encoded.output, firmware.nsym))
    /\ rs_check(rs_syndromes(firmware.data
                               \o rsEncodeMsg(EmptyCache, firmware.data, firmware.nsym),
                             firmware.nsym),
                firmware.nsym)

\* The one-byte buffer 0x41 with 16 parity bytes: the firmware writes the
\* parity D1 2E C7 ... 5D 41, fec.encode appends 5D 6A 77 ... D1 5D, and the
\* firmware's block has a non-zero syndrome in the JavaScript decoder.
C29_ParityDiffers ==
  /\ call = "meshxt_fec_encode"
  /\ firmware.data = <<65>>
  /\ firmware.nsym = 16
  /\ firmware.encoded.output
       = <<65, 209, 46, 199, 26, 187, 204, 12, 50, 205, 175, 148, 193, 119, 106, 93, 65>>
  /\ rsEncodeMsg(EmptyCache, <<65>>, 16)
       = <<93, 106, 119, 193, 148, 175, 205, 50, 12, 204, 187, 26, 199, 46, 209, 93>>
  /\ ~AllZero(rsCalcSyndromes(firmware.encoded.output, 16))

\* C30: for every finite byte sequence given to parsePacket, the call
\* terminates, either returning a result or failing with an error: a call
\* that entered the decompress loop leaves it, every iteration of that loop
\* strictly advances the read position (or throws), and the result after
\* the last iteration is the message made of the parts read.
C30_ParseTerminates ==
  /\ (call = "parseBegin") ~> (call = "parseEnd")
  /\ [][(call = "parseBegin" /\ call' = "parseBegin" /\ parseLoop'.st.ok)
          => (/\ parseLoop'.st.pos > parseLoop.st.pos
              /\ parseLoop'.st.pos <= Len(parseLoop.buf))]_vars
  /\ [](call = "parseEnd" => parsed = parsePacket(pkt))

\* A smaz packet of two escapes, the second cut short: the loop read the
\* first run, threw at the second and the call ended with that error.
C30_SecondRunCutShort ==
  /\ call = "parseEnd"
  /\ pkt = Given(<<17, 0, 254, 1, 65, 254, 2, 65>>)
  /\ parseLoop.buf = <<254, 1, 65, 254, 2, 65>>
  /\ ~parseLoop.st.ok
  /\ parsed.ok = FALSE
  /\ parsed.err = "Truncated literal data"

====
